---- MODULE Spec2Model ----
(***************************************************************************)
(* A model of the CoDiPack ChunkIndexTape (include/tapes/chunkIndexTape.hpp)*)
(* and of the ActiveReal wrapper that drives it (include/activeReal.hpp).  *)
(*                                                                         *)
(* Real numbers are modelled by integers.  The three nested chunk vectors  *)
(* externalFunctions -> data -> statements are modelled chunk by chunk,    *)
(* positions are the (chunk, data, inner) triples of the source.           *)
(***************************************************************************)
EXTENDS Integers, Sequences, FiniteSets, TLC

(***************************************************************************)
(* Bounds of the model.                                                    *)
(***************************************************************************)
NumVars == 3        \* ActiveReal objects of the program
MaxStmts == 2       \* statements recorded on the tape
MaxExt == 1         \* external functions recorded on the tape
MaxTerms == 2       \* leaves of a right hand side expression
MaxAdj == 12        \* largest absolute adjoint value followed
MaxFree == 1        \* indices on the index handler's free list
MaxSeeds == 2       \* adjoint slots seeded before a replay
MaxPushes == 2      \* external functions pushed in a run with resets
MaxResets == 2      \* reset calls of a run
MaxAdjSize == 3     \* largest size handed to setAdjointsSize
MaxValue == 1       \* largest absolute primal value of the compound assignments

Vars == 1..NumVars
\* The runs of the model come in four sizes.  Each bounds the variables,
\* the statements and external functions on the tape, the length of the
\* index handler's free list, the primal values stored, the slots seeded
\* before a replay, the statement chunk sizes and the leaves of a right
\* hand side; trace says whether the recording calls are remembered in last.
Limits ==
  {[vars |-> NumVars, stmts |-> MaxStmts - 1, ext |-> 0, free |-> 0,
    values |-> {0}, seeds |-> MaxSeeds - 1, stmtSizes |-> {1}, terms |-> MaxTerms, trace |-> FALSE],
   [vars |-> NumVars - 1, stmts |-> MaxStmts - 1, ext |-> 0, free |-> MaxFree,
    values |-> {0}, seeds |-> MaxSeeds - 1, stmtSizes |-> {1}, terms |-> MaxTerms, trace |-> FALSE],
   [vars |-> NumVars - 2, stmts |-> MaxStmts, ext |-> MaxExt, free |-> 0,
    values |-> {0}, seeds |-> MaxSeeds, stmtSizes |-> {1, 2}, terms |-> MaxTerms, trace |-> FALSE],
   [vars |-> NumVars - 1, stmts |-> MaxStmts, ext |-> 0, free |-> 0,
    values |-> {0}, seeds |-> MaxSeeds - 1, stmtSizes |-> {1}, terms |-> MaxTerms,
    trace |-> FALSE]}
\* the runs with every chunk size down to 1
SegmentLimits ==
  {[vars |-> NumVars - 2, stmts |-> MaxStmts, ext |-> MaxExt, free |-> 0,
    values |-> {0}, seeds |-> MaxSeeds - 1, stmtSizes |-> {1, 2}, terms |-> MaxTerms,
    trace |-> FALSE],
   [vars |-> NumVars - 1, stmts |-> MaxStmts - 1, ext |-> 0, free |-> 0,
    values |-> {0}, seeds |-> MaxSeeds - 1, stmtSizes |-> {1}, terms |-> MaxTerms,
    trace |-> FALSE]}
\* the runs with manual stores
ManualLimits ==
  {[vars |-> NumVars - 1, stmts |-> MaxStmts - 1, ext |-> 0, free |-> 0,
    values |-> {0}, seeds |-> 0, stmtSizes |-> {1}, terms |-> MaxTerms,
    trace |-> FALSE]}
\* the runs that keep the last call in the state
TracedLimits ==
  {[vars |-> NumVars - 1, stmts |-> MaxStmts - 1, ext |-> 0, free |-> MaxFree,
    values |-> {1}, seeds |-> 0, stmtSizes |-> {1}, terms |-> MaxTerms, trace |-> TRUE]}
\* the runs with resets; resets bounds the reset calls of the run
ResetLimits ==
  {[vars |-> NumVars - 2, stmts |-> MaxStmts, ext |-> MaxPushes, free |-> 0,
    values |-> {0}, seeds |-> MaxSeeds - 1, stmtSizes |-> {1}, terms |-> MaxTerms - 1,
    trace |-> FALSE, resets |-> MaxResets],
   [vars |-> NumVars - 1, stmts |-> MaxStmts - 1, ext |-> 0, free |-> MaxFree,
    values |-> {0}, seeds |-> 0, stmtSizes |-> {1}, terms |-> MaxTerms - 1,
    trace |-> TRUE, resets |-> MaxResets - 1]}
\* the runs that size the adjoint vector by hand
AdjointLimits ==
  {[vars |-> NumVars - 1, stmts |-> MaxStmts - 1, ext |-> MaxExt, free |-> 0,
    values |-> {0}, seeds |-> MaxSeeds - 1, stmtSizes |-> {1}, terms |-> MaxTerms - 1,
    trace |-> TRUE]}
\* the runs of registerInput with a reset
RegisterLimits ==
  {[vars |-> NumVars - 1, stmts |-> MaxStmts - 1, ext |-> 0, free |-> MaxFree,
    values |-> {0}, seeds |-> 0, stmtSizes |-> {1}, terms |-> MaxTerms - 1,
    trace |-> TRUE, resets |-> MaxResets - 1]}
\* the runs that hand positions over in the wrong order
MisuseLimits ==
  {[vars |-> NumVars - 2, stmts |-> MaxStmts, ext |-> MaxExt, free |-> 0,
    values |-> {0}, seeds |-> MaxSeeds - 1, stmtSizes |-> {1}, terms |-> MaxTerms - 1,
    trace |-> FALSE, resets |-> MaxResets - 1]}
\* the runs that size the adjoint vector by hand and reset
BoundsLimits ==
  {[vars |-> NumVars - 2, stmts |-> MaxStmts, ext |-> 0, free |-> 0,
    values |-> {0}, seeds |-> MaxSeeds - 1, stmtSizes |-> {1}, terms |-> MaxTerms - 1,
    trace |-> FALSE, resets |-> MaxResets - 1]}
\* the runs that are made on two builds
PolicyLimits ==
  {[vars |-> NumVars - 1, stmts |-> MaxStmts, ext |-> 0, free |-> MaxFree,
    values |-> {0}, seeds |-> MaxSeeds - 1, stmtSizes |-> {1}, terms |-> MaxTerms - 1,
    trace |-> FALSE]}
\* the runs with the compound assignments and the increments
OperatorLimits ==
  {[vars |-> NumVars - 1, stmts |-> MaxStmts, ext |-> 0, free |-> 0,
    values |-> {0}, seeds |-> MaxSeeds - 1, stmtSizes |-> {1}, terms |-> MaxTerms - 1,
    trace |-> TRUE]}
\* jacobi values handed to pushJacobi; Inf stands for a non-finite value
Inf == 1000
\* the jacobi of the i-th leaf of an expression is one of CoefsAt(i)
CoefsAt(i) == IF i % 2 = 1 THEN {0, 2} ELSE {3, Inf}
\* gradient values handed to setGradient
Seeds == {1}

\* configure.h switches as used through ENABLE_CHECK (all default to true)
OptTapeActivity == TRUE
OptIgnoreInvalidJacobies == TRUE
OptJacobiIsZero == TRUE
OptZeroAdjoint == TRUE
\* the builds with the zero jacobi filter, the zero adjoint skip or both
\* switched off
PolicyOptions ==
  {[tapeActivity |-> OptTapeActivity, ignoreInvalidJacobies |-> OptIgnoreInvalidJacobies,
    jacobiIsZero |-> FALSE, zeroAdjoint |-> OptZeroAdjoint],
   [tapeActivity |-> OptTapeActivity, ignoreInvalidJacobies |-> OptIgnoreInvalidJacobies,
    jacobiIsZero |-> OptJacobiIsZero, zeroAdjoint |-> FALSE],
   [tapeActivity |-> OptTapeActivity, ignoreInvalidJacobies |-> OptIgnoreInvalidJacobies,
    jacobiIsZero |-> FALSE, zeroAdjoint |-> FALSE]}
\* the switches of a build with the default configuration
DefaultOptions ==
  [tapeActivity |-> OptTapeActivity,
   ignoreInvalidJacobies |-> OptIgnoreInvalidJacobies,
   jacobiIsZero |-> OptJacobiIsZero,
   zeroAdjoint |-> OptZeroAdjoint]

\* chunk size of the reference tape (the constructor's DefaultChunkSize)
DefaultChunkSize == 10000
\* the chunk size the constructor gives externalFunctions
DefaultExtChunkSize == 1000

isfinite(x) == x # Inf

Abs(x) == IF x < 0 THEN -x ELSE x

Last(s) == s[Len(s)]

RECURSIVE SeqSum(_)
SeqSum(s) == IF s = <<>> THEN 0 ELSE s[1] + SeqSum(Tail(s))

Reverse(s) == [i \in 1..Len(s) |-> s[Len(s) + 1 - i]]

RECURSIVE Flatten(_)
Flatten(ss) == IF ss = <<>> THEN <<>> ELSE ss[1] \o Flatten(Tail(ss))

(***************************************************************************)
(* IndexHandler: free list plus monotonic counter.                         *)
(***************************************************************************)
IndexHandlerInit == [count |-> 0, free |-> <<>>]

\* freeIndex(index): a nonzero index goes to the free list; index becomes 0
freeIndex(ih, index) ==
  IF index # 0
    THEN [ih |-> [ih EXCEPT !.free = Append(@, index)], index |-> 0]
    ELSE [ih |-> ih, index |-> 0]

\* checkIndex(index): an index of 0 is replaced by a fresh one
checkIndex(ih, index) ==
  IF index = 0
    THEN IF ih.free # <<>>
           THEN [ih |-> [ih EXCEPT !.free = SubSeq(@, 1, Len(@) - 1)],
                 index |-> Last(ih.free)]
           ELSE [ih |-> [ih EXCEPT !.count = @ + 1], index |-> ih.count + 1]
    ELSE [ih |-> ih, index |-> index]

getMaximumGlobalIndex(ih) == ih.count

\* IndexHandler::reset(): the free list and the counter are discarded
indexHandlerReset(ih) == IndexHandlerInit

(***************************************************************************)
(* ChunkVector: a sequence of chunks; a chunk holds its items and the      *)
(* position of the nested vector at the time the chunk was started.        *)
(***************************************************************************)
EmptyPosition == <<>>

ChunkVectorInit(inner) == << [items |-> <<>>, inner |-> inner] >>

CVgetChunkPosition(cv) == Len(Last(cv).items)

CVgetPosition(cv, inner) ==
  [chunk |-> Len(cv) - 1, data |-> CVgetChunkPosition(cv), inner |-> inner]

\* reserveItems(n): a new chunk is started if the current one cannot hold n more
CVreserveItems(cv, n, chunkSize, inner) ==
  IF chunkSize < CVgetChunkPosition(cv) + n
    THEN Append(cv, [items |-> <<>>, inner |-> inner])
    ELSE cv

\* setDataAndMove(item): writes at the offset and advances it.  A write at an
\* offset beyond the chunk's capacity is out of bounds: what is read back
\* from there is the item or oob, whatever the memory behind the chunk keeps.
CVsetDataAndMove(cv, item, chunkSize, oob) ==
  [cv EXCEPT ![Len(cv)].items =
     Append(@, IF Len(@) < chunkSize THEN item ELSE oob)]

CVgetChunkUsedData(cv, chunk) == Len(cv[chunk + 1].items)
CVgetInnerPosition(cv, chunk) == cv[chunk + 1].inner
CVgetDataAtPosition(cv, chunk) == cv[chunk + 1].items
CVgetDataSize(cv) == SeqSum([i \in 1..Len(cv) |-> Len(cv[i].items)])
CVitems(cv) == Flatten([i \in 1..Len(cv) |-> cv[i].items])

\* reset(pos) on one vector: the chunks and the items behind pos are dropped
CVreset(cv, pos) ==
  [i \in 1..(pos.chunk + 1) |->
     IF i = pos.chunk + 1
       THEN [cv[i] EXCEPT !.items = SubSeq(@, 1, pos.data)]
       ELSE cv[i]]

(***************************************************************************)
(* ChunkIndexTape.  A tape object T holds the members of the class:        *)
(* statements, data, externalFunctions (chunk vectors), adjoints,          *)
(* adjointsSize, active, indexHandler, the three chunk sizes cs, and the    *)
(* configuration switches opt the class was compiled with.                 *)
(* An operation yields the new tape object and the values it writes        *)
(* through its reference parameters.                                       *)
(***************************************************************************)
\* ChunkIndexTape(): the constructor, followed by set...ChunkSize calls
ChunkIndexTape(stmtSize, dataSize, extSize) ==
  LET statements == ChunkVectorInit(EmptyPosition)
      data == ChunkVectorInit(CVgetPosition(statements, EmptyPosition))
  IN  [statements |-> statements,
       data |-> data,
       externalFunctions |->
         ChunkVectorInit(CVgetPosition(data, CVgetPosition(statements, EmptyPosition))),
       adjoints |-> <<>>,
       adjointsSize |-> 0,
       active |-> FALSE,
       indexHandler |-> IndexHandlerInit,
       cs |-> [stmt |-> stmtSize, data |-> dataSize, ext |-> extSize],
       opt |-> DefaultOptions]

stmtPosition(T) == CVgetPosition(T.statements, EmptyPosition)
dataPosition(T) == CVgetPosition(T.data, stmtPosition(T))
getPosition(T) == CVgetPosition(T.externalFunctions, dataPosition(T))
\* Position(): the default constructed position
InitialPosition ==
  [chunk |-> 0, data |-> 0,
   inner |-> [chunk |-> 0, data |-> 0,
              inner |-> [chunk |-> 0, data |-> 0, inner |-> EmptyPosition]]]

\* adjoints[i] of the C array is element i + 1 of the sequence
Adj(adjoints, i) == adjoints[i + 1]

\* resizeAdjoints(size): realloc keeps the old entries, new ones are zeroed
resizeAdjoints(T, size) ==
  [T EXCEPT !.adjointsSize = size,
            !.adjoints = [i \in 1..size |->
                            IF i <= T.adjointsSize THEN T.adjoints[i] ELSE 0]]

\* setAdjointsSize(adjointsSize)
setAdjointsSize(T, size) == resizeAdjoints(T, size)

\* allocateAdjoints()
allocateAdjoints(T) == resizeAdjoints(T, getMaximumGlobalIndex(T.indexHandler) + 1)

\* what an out-of-bounds write of a jacobi entry may leave behind
Clobbered(item) == [jac |-> 0, idx |-> item.idx]

\* pushJacobi without the check for a jacobi of zero
pushJacobi_noZeroCheck(T, jacobi, index, keep) ==
  IF 0 # index
    THEN IF T.opt.ignoreInvalidJacobies => isfinite(jacobi)
           THEN LET item == [jac |-> jacobi, idx |-> index]
                IN  [T EXCEPT !.data =
                       CVsetDataAndMove(@, item, T.cs.data,
                                        IF keep THEN item ELSE Clobbered(item))]
           ELSE T
    ELSE T

\* pushJacobi without the check for the identity 0 of a passive value
pushJacobi_anyIndex(T, jacobi, index, keep) ==
  IF (T.opt.ignoreInvalidJacobies => isfinite(jacobi))
     /\ (T.opt.jacobiIsZero => 0 # jacobi)
    THEN LET item == [jac |-> jacobi, idx |-> index]
         IN  [T EXCEPT !.data =
                CVsetDataAndMove(@, item, T.cs.data,
                                 IF keep THEN item ELSE Clobbered(item))]
    ELSE T

\* pushJacobi(data, jacobi, value, index)
pushJacobi(T, jacobi, index, keep) ==
  IF 0 # index
    THEN IF (T.opt.ignoreInvalidJacobies => isfinite(jacobi))
            /\ (T.opt.jacobiIsZero => 0 # jacobi)
           THEN LET item == [jac |-> jacobi, idx |-> index]
                IN  [T EXCEPT !.data =
                       CVsetDataAndMove(@, item, T.cs.data,
                                        IF keep THEN item ELSE Clobbered(item))]
           ELSE T
    ELSE T

\* pushJacobi(data, value, index): the jacobi is 1.0
pushJacobiUnit(T, index, keep) ==
  IF 0 # index
    THEN LET item == [jac |-> 1, idx |-> index]
         IN  [T EXCEPT !.data =
                CVsetDataAndMove(@, item, T.cs.data,
                                 IF keep THEN item ELSE Clobbered(item))]
    ELSE T

\* rhs.calcGradient: the expression reports each leaf [jac, idx] by pushJacobi
RECURSIVE calcGradient(_, _, _)
calcGradient(T, leaves, keep) ==
  IF leaves = <<>>
    THEN T
    ELSE calcGradient(pushJacobi(T, leaves[1].jac, leaves[1].idx, keep),
                      Tail(leaves), keep)

\* the store of an expression that appends a statement whatever the gradient
\* callback has appended
storeExpr_alwaysStatement(T, lhsIndex, leaves, rhsValue, keep) ==
  IF T.opt.tapeActivity => T.active
    THEN LET T1 == [T EXCEPT !.statements =
                      CVreserveItems(@, 1, T.cs.stmt, EmptyPosition)]
             T2 == [T1 EXCEPT !.data =
                      CVreserveItems(@, Len(leaves), T.cs.data, stmtPosition(T1))]
             startSize == CVgetChunkPosition(T2.data)
             T3 == calcGradient(T2, leaves, keep)
             activeVariables == CVgetChunkPosition(T3.data) - startSize
             c == checkIndex(T3.indexHandler, lhsIndex)
             stmt == [n |-> activeVariables, lhs |-> c.index]
         IN  [tape |-> [T3 EXCEPT
                          !.indexHandler = c.ih,
                          !.statements = CVsetDataAndMove(@, stmt, T.cs.stmt, stmt)],
              index |-> c.index, value |-> rhsValue]
    ELSE LET f == freeIndex(T.indexHandler, lhsIndex)
         IN  [tape |-> [T EXCEPT !.indexHandler = f.ih],
              index |-> f.index, value |-> rhsValue]

\* the store of an expression that puts the identity of the lhs on the free
\* list and leaves it with the lhs
storeExpr_staleIndex(T, lhsIndex, leaves, rhsValue, keep) ==
  IF T.opt.tapeActivity => T.active
    THEN LET T1 == [T EXCEPT !.statements =
                      CVreserveItems(@, 1, T.cs.stmt, EmptyPosition)]
             T2 == [T1 EXCEPT !.data =
                      CVreserveItems(@, Len(leaves), T.cs.data, stmtPosition(T1))]
             startSize == CVgetChunkPosition(T2.data)
             T3 == calcGradient(T2, leaves, keep)
             activeVariables == CVgetChunkPosition(T3.data) - startSize
         IN  IF 0 = activeVariables
               THEN LET f == freeIndex(T3.indexHandler, lhsIndex)
                    IN  [tape |-> [T3 EXCEPT !.indexHandler = f.ih],
                         index |-> lhsIndex, value |-> rhsValue]
               ELSE LET c == checkIndex(T3.indexHandler, lhsIndex)
                        stmt == [n |-> activeVariables, lhs |-> c.index]
                    IN  [tape |-> [T3 EXCEPT
                                     !.indexHandler = c.ih,
                                     !.statements =
                                        CVsetDataAndMove(@, stmt, T.cs.stmt, stmt)],
                         index |-> c.index, value |-> rhsValue]
    ELSE LET f == freeIndex(T.indexHandler, lhsIndex)
         IN  [tape |-> [T EXCEPT !.indexHandler = f.ih],
              index |-> lhsIndex, value |-> rhsValue]

\* store(lhsValue, lhsIndex, rhs) for an expression rhs with the given leaves
\* (ExpressionTraits<Rhs>::maxActiveVariables = Len(leaves)) and value
storeExpr(T, lhsIndex, leaves, rhsValue, keep) ==
  IF T.opt.tapeActivity => T.active
    THEN LET T1 == [T EXCEPT !.statements =
                      CVreserveItems(@, 1, T.cs.stmt, EmptyPosition)]
             T2 == [T1 EXCEPT !.data =
                      CVreserveItems(@, Len(leaves), T.cs.data, stmtPosition(T1))]
             startSize == CVgetChunkPosition(T2.data)
             T3 == calcGradient(T2, leaves, keep)
             activeVariables == CVgetChunkPosition(T3.data) - startSize
         IN  IF 0 = activeVariables
               THEN LET f == freeIndex(T3.indexHandler, lhsIndex)
                    IN  [tape |-> [T3 EXCEPT !.indexHandler = f.ih],
                         index |-> f.index, value |-> rhsValue]
               ELSE LET c == checkIndex(T3.indexHandler, lhsIndex)
                        stmt == [n |-> activeVariables, lhs |-> c.index]
                    IN  [tape |-> [T3 EXCEPT
                                     !.indexHandler = c.ih,
                                     !.statements =
                                        CVsetDataAndMove(@, stmt, T.cs.stmt, stmt)],
                         index |-> c.index, value |-> rhsValue]
    ELSE LET f == freeIndex(T.indexHandler, lhsIndex)
         IN  [tape |-> [T EXCEPT !.indexHandler = f.ih],
              index |-> f.index, value |-> rhsValue]

\* the copy that hands the identity of the rhs to the lhs
storeCopy_shareIndex(T, lhsIndex, rhsIndex, rhsValue) ==
  LET f == freeIndex(T.indexHandler, IF lhsIndex = rhsIndex THEN 0 ELSE lhsIndex)
  IN  [tape |-> [T EXCEPT !.indexHandler = f.ih],
       index |-> IF T.opt.tapeActivity => T.active THEN rhsIndex ELSE 0,
       value |-> rhsValue]

\* store(lhsValue, lhsIndex, const ActiveReal& rhs): the copy optimization
storeCopy(T, lhsIndex, rhsIndex, rhsValue) ==
  IF T.opt.tapeActivity => T.active
    THEN IF 0 # rhsIndex
           THEN LET c == checkIndex(T.indexHandler, lhsIndex)
                    T1 == [T EXCEPT !.statements =
                             CVreserveItems(@, 1, T.cs.stmt, EmptyPosition)]
                    T2 == [T1 EXCEPT !.data =
                             CVreserveItems(@, 1, T.cs.data, stmtPosition(T1))]
                    item == [jac |-> 1, idx |-> rhsIndex]
                    stmt == [n |-> 1, lhs |-> c.index]
                IN  [tape |-> [T2 EXCEPT
                                 !.indexHandler = c.ih,
                                 !.data = CVsetDataAndMove(@, item, T.cs.data, item),
                                 !.statements =
                                    CVsetDataAndMove(@, stmt, T.cs.stmt, stmt)],
                     index |-> c.index, value |-> rhsValue]
           ELSE LET f == freeIndex(T.indexHandler, lhsIndex)
                IN  [tape |-> [T EXCEPT !.indexHandler = f.ih],
                     index |-> f.index, value |-> rhsValue]
    ELSE LET f == freeIndex(T.indexHandler, lhsIndex)
         IN  [tape |-> [T EXCEPT !.indexHandler = f.ih],
              index |-> f.index, value |-> rhsValue]

\* the store of a constant that frees the identity on the passive tape only
storePassive_whenPassive(T, lhsIndex, rhs) ==
  IF T.opt.tapeActivity => T.active
    THEN [tape |-> T, index |-> lhsIndex, value |-> rhs]
    ELSE LET f == freeIndex(T.indexHandler, lhsIndex)
         IN  [tape |-> [T EXCEPT !.indexHandler = f.ih], index |-> f.index,
              value |-> rhs]

\* the store of a constant that leaves the identity of the lhs alone
storePassive_keepIndex(T, lhsIndex, rhs) ==
  [tape |-> T, index |-> lhsIndex, value |-> rhs]

\* store(lhsValue, lhsIndex, const PassiveReal& rhs)
storePassive(T, lhsIndex, rhs) ==
  LET f == freeIndex(T.indexHandler, lhsIndex)
  IN  [tape |-> [T EXCEPT !.indexHandler = f.ih], index |-> f.index, value |-> rhs]

\* store(lhsIndex, size): the manual store
storeManual(T, lhsIndex, size) ==
  IF T.opt.tapeActivity => T.active
    THEN LET T1 == [T EXCEPT !.data =
                      CVreserveItems(@, size, T.cs.data, stmtPosition(T))]
             T2 == [T1 EXCEPT !.statements =
                      CVreserveItems(@, 1, T.cs.stmt, EmptyPosition)]
             c == checkIndex(T2.indexHandler, lhsIndex)
             stmt == [n |-> size, lhs |-> c.index]
         IN  [tape |-> [T2 EXCEPT !.indexHandler = c.ih,
                                  !.statements =
                                     CVsetDataAndMove(@, stmt, T.cs.stmt, stmt)],
              index |-> c.index]
    ELSE [tape |-> T, index |-> lhsIndex]

\* initGradientData(value, index)
initGradientData(T, value) == [tape |-> T, index |-> 0, value |-> value]

\* the hook that also takes the counter back when the highest identity goes
destroyGradientData_shrink(T, index, value) ==
  LET f == freeIndex(T.indexHandler, index)
  IN  [tape |-> [T EXCEPT !.indexHandler =
                   IF index # 0 /\ index = T.indexHandler.count
                     THEN [T.indexHandler EXCEPT !.count = @ - 1]
                     ELSE f.ih],
       index |-> f.index, value |-> value]

\* destroyGradientData(value, index)
destroyGradientData(T, index, value) ==
  LET f == freeIndex(T.indexHandler, index)
  IN  [tape |-> [T EXCEPT !.indexHandler = f.ih], index |-> f.index, value |-> value]

\* registerInput(value)
registerInput(T, index, value) ==
  LET c == checkIndex(T.indexHandler, index)
  IN  [tape |-> [T EXCEPT !.indexHandler = c.ih], index |-> c.index, value |-> value]

\* the compound assignment unfolded to *this = *this + rhs, as the one with
\* an expression on the right is
addPassive_unfolded(T, primal, index, rhs) ==
  storeExpr(T, index, << [jac |-> 1, idx |-> index] >>, primal + rhs, TRUE)

\* ActiveReal::operator+=(const PassiveReal&) on a variable with the given
\* primal value and identity: the tape is not called
addPassive(T, primal, index, rhs) ==
  [tape |-> T, index |-> index, value |-> primal + rhs]

\* ActiveReal::operator-=(const PassiveReal&)
subPassive(T, primal, index, rhs) ==
  [tape |-> T, index |-> index, value |-> primal - rhs]

\* ActiveReal::operator++(int) on the variable with the given primal value
\* and identity: r is copy constructed from it and returned, then
\* *this += *this + 1.0 stores the expression *this + (*this + 1.0), whose
\* leaves are the variable twice; self is what the variable is left with
postIncrement(T, primal, index) ==
  LET i == initGradientData(T, 0)
      c == storeCopy(i.tape, i.index, index, primal)
      s == storeExpr(c.tape, index,
                     << [jac |-> 1, idx |-> index], [jac |-> 1, idx |-> index] >>,
                     primal + (primal + 1), TRUE)
  IN  [tape |-> s.tape,
       r |-> [index |-> c.index, value |-> c.value],
       self |-> [index |-> s.index, value |-> s.value]]

\* registerOutput(value)
registerOutput(T, index, value) == [tape |-> T, index |-> index, value |-> value]

\* gradient(index): the reference it returns is adjoints[index]
gradient(T, index) ==
  IF T.adjointsSize <= index THEN resizeAdjoints(T, index + 1) ELSE T

\* setGradient(index, gradient)
setGradient(T, index, g) ==
  IF 0 # index
    THEN [gradient(T, index) EXCEPT !.adjoints[index + 1] = g]
    ELSE T

\* getGradient(index)
getGradient(T, index) ==
  IF T.adjointsSize <= index THEN 0 ELSE Adj(T.adjoints, index)

\* ActiveReal(value, gradient): the gradient data is initialized and the
\* gradient is then set through it
constructGradient(T, value, g) ==
  LET i == initGradientData(T, value)
  IN  [tape |-> setGradient(i.tape, i.index, g), index |-> i.index, value |-> i.value]

setActive(T) == [T EXCEPT !.active = TRUE]
setPassive(T) == [T EXCEPT !.active = FALSE]
isActive(T) == T.active

\* pushExternalFunctionHandle(function)
pushExternalFunctionHandle(T, function) ==
  LET T1 == [T EXCEPT !.externalFunctions =
               CVreserveItems(@, 1, T.cs.ext, dataPosition(T))]
      item == [func |-> function, inner |-> dataPosition(T1)]
  IN  [T1 EXCEPT !.externalFunctions = CVsetDataAndMove(@, item, T.cs.ext, item)]

(***************************************************************************)
(* Reverse evaluation.  An evaluation state E holds the adjoint vector,    *)
(* the record of what was replayed so far (log) and the running cursor of  *)
(* the loop at hand.                                                       *)
(***************************************************************************)
\* ExternalFunction::evaluate(): the user's callback; it is recorded as called
ExternalFunctionEvaluate(E, func) ==
  [E EXCEPT !.log = Append(@, [k |-> "ext", func |-> func])]

\* the loop with the jacobi left out of the update
RECURSIVE accumulateJacobies_noJacobi(_, _, _, _, _, _)
accumulateJacobies_noJacobi(adjoints, adj, dataItems, dataPos, curVar, activeVariables) ==
  IF curVar < activeVariables
    THEN LET pos == dataPos - 1
             item == dataItems[pos + 1]
         IN  accumulateJacobies_noJacobi(
               [adjoints EXCEPT ![item.idx + 1] = @ + adj],
               adj, dataItems, pos, curVar + 1, activeVariables)
    ELSE adjoints

\* the for loop over the arguments of one statement
RECURSIVE accumulateJacobies(_, _, _, _, _, _)
accumulateJacobies(adjoints, adj, dataItems, dataPos, curVar, activeVariables) ==
  IF curVar < activeVariables
    THEN LET pos == dataPos - 1
             item == dataItems[pos + 1]
         IN  accumulateJacobies(
               [adjoints EXCEPT ![item.idx + 1] = @ + adj * item.jac],
               adj, dataItems, pos, curVar + 1, activeVariables)
    ELSE adjoints

\* evaluateExpressions with the adjoint of the lhs not reset
RECURSIVE evaluateExpressions_keepLhs(_, _, _, _, _, _, _)
evaluateExpressions_keepLhs(T, E, stmtPos, endStmtPos, stmtItems, dataItems, stmtChunk) ==
  IF stmtPos > endStmtPos
    THEN LET pos == stmtPos - 1
             lhsIndex == stmtItems[pos + 1].lhs
             adj == Adj(E.adjoints, lhsIndex)
             activeVariables == stmtItems[pos + 1].n
             E1 == [adjoints |->
                      IF T.opt.zeroAdjoint => adj # 0
                        THEN accumulateJacobies(E.adjoints, adj, dataItems, E.dataPos,
                                                0, activeVariables)
                        ELSE E.adjoints,
                    log |-> Append(E.log, [k |-> "stmt", chunk |-> stmtChunk,
                                           pos |-> pos]),
                    dataPos |-> E.dataPos - activeVariables]
         IN  evaluateExpressions_keepLhs(T, E1, pos, endStmtPos, stmtItems, dataItems,
                                         stmtChunk)
    ELSE E

\* evaluateExpressions(stmtPos, endStmtPos, numberOfArguments, lhsIndices,
\*                     dataPos, jacobies, indices) of the tape T; stmtChunk names the chunk
\* the statement arrays belong to
RECURSIVE evaluateExpressions(_, _, _, _, _, _, _)
evaluateExpressions(T, E, stmtPos, endStmtPos, stmtItems, dataItems, stmtChunk) ==
  IF stmtPos > endStmtPos
    THEN LET pos == stmtPos - 1
             lhsIndex == stmtItems[pos + 1].lhs
             adj == Adj(E.adjoints, lhsIndex)
             zeroed == [E.adjoints EXCEPT ![lhsIndex + 1] = 0]
             activeVariables == stmtItems[pos + 1].n
             E1 == [adjoints |->
                      IF T.opt.zeroAdjoint => adj # 0
                        THEN accumulateJacobies(zeroed, adj, dataItems, E.dataPos,
                                                0, activeVariables)
                        ELSE zeroed,
                    log |-> Append(E.log, [k |-> "stmt", chunk |-> stmtChunk,
                                           pos |-> pos]),
                    dataPos |-> E.dataPos - activeVariables]
         IN  evaluateExpressions(T, E1, pos, endStmtPos, stmtItems, dataItems,
                                 stmtChunk)
    ELSE E

\* the loop of evaluateStmt over the statement chunks, from curChunk down
RECURSIVE evaluateStmtLoop(_, _, _, _, _, _)
evaluateStmtLoop(T, E, curChunk, pos, end, dataItems) ==
  IF curChunk > end.chunk
    THEN evaluateStmtLoop(
           T,
           evaluateExpressions(T, E, pos, 0,
                               CVgetDataAtPosition(T.statements, curChunk),
                               dataItems, curChunk),
           curChunk - 1, CVgetChunkUsedData(T.statements, curChunk - 1), end, dataItems)
    ELSE evaluateExpressions(T, E, pos, end.data,
                             CVgetDataAtPosition(T.statements, end.chunk),
                             dataItems, end.chunk)

\* evaluateStmt(start, end, stmtPos, jacobies, indices)
evaluateStmt(T, E, start, end, dataItems) ==
  evaluateStmtLoop(T, E, start.chunk, start.data, end, dataItems)

\* the loop of evaluateData over the jacobi chunks, from curChunk down
RECURSIVE evaluateDataLoop(_, _, _, _, _)
evaluateDataLoop(T, E, curChunk, curInnerPos, end) ==
  IF curChunk > end.chunk
    THEN LET endInnerPos == CVgetInnerPosition(T.data, curChunk)
             E1 == evaluateStmt(T, E, curInnerPos, endInnerPos,
                                CVgetDataAtPosition(T.data, curChunk))
         IN  evaluateDataLoop(
               T, [E1 EXCEPT !.dataPos = CVgetChunkUsedData(T.data, curChunk - 1)],
               curChunk - 1, endInnerPos, end)
    ELSE evaluateStmt(T, E, curInnerPos, end.inner,
                      CVgetDataAtPosition(T.data, end.chunk))

\* evaluateData starting at the end of the jacobi chunk instead of start.data
evaluateData_chunkEnd(T, adjoints, log, start, end) ==
  evaluateDataLoop(T, [adjoints |-> adjoints, log |-> log,
                       dataPos |-> CVgetChunkUsedData(T.data, start.chunk)],
                   start.chunk, start.inner, end)

\* evaluateData(start, end)
evaluateData(T, adjoints, log, start, end) ==
  evaluateDataLoop(T, [adjoints |-> adjoints, log |-> log, dataPos |-> start.data],
                   start.chunk, start.inner, end)

\* ExtFuncEvaluator calling the function before the statements after it
ExtFuncEvaluator_callFirst(T, X, item) ==
  LET E0 == ExternalFunctionEvaluate([adjoints |-> X.adjoints, log |-> X.log],
                                     item.func)
      E == evaluateData(T, E0.adjoints, E0.log, X.curInnerPos, item.inner)
  IN  [adjoints |-> E.adjoints, log |-> E.log, curInnerPos |-> item.inner]

\* ExtFuncEvaluator::operator(): X holds adjoints, log and curInnerPos
ExtFuncEvaluator(T, X, item) ==
  LET E == evaluateData(T, X.adjoints, X.log, X.curInnerPos, item.inner)
      E1 == ExternalFunctionEvaluate(E, item.func)
  IN  [adjoints |-> E1.adjoints, log |-> E1.log, curInnerPos |-> item.inner]

\* ChunkVector::forEach on one chunk: the items from dataPos down to endPos
RECURSIVE forEachData(_, _, _, _, _)
forEachData(T, X, items, dataPos, endPos) ==
  IF dataPos > endPos
    THEN forEachData(T, ExtFuncEvaluator(T, X, items[dataPos]), items,
                     dataPos - 1, endPos)
    ELSE X

\* ChunkVector::forEach(start, end, function) on externalFunctions
RECURSIVE forEachExtFunc(_, _, _, _, _)
forEachExtFunc(T, X, curChunk, dataPos, end) ==
  IF curChunk > end.chunk
    THEN forEachExtFunc(
           T,
           forEachData(T, X, CVgetDataAtPosition(T.externalFunctions, curChunk),
                       dataPos, 0),
           curChunk - 1, CVgetChunkUsedData(T.externalFunctions, curChunk - 1), end)
    ELSE forEachData(T, X, CVgetDataAtPosition(T.externalFunctions, end.chunk),
                     dataPos, end.data)

\* evaluateExtFunc that deletes the data of the functions it has called
evaluateExtFunc_pop(T, start, end) ==
  LET evaluator == [adjoints |-> T.adjoints, log |-> <<>>, curInnerPos |-> start.inner]
      X == forEachExtFunc(T, evaluator, start.chunk, start.data, end)
      E == evaluateData(T, X.adjoints, X.log, X.curInnerPos, end.inner)
  IN  [E EXCEPT !.log =
         @ \o [i \in 1..Len(SelectSeq(E.log, LAMBDA e : e.k = "ext")) |->
                 [k |-> "del", func |-> SelectSeq(E.log, LAMBDA e : e.k = "ext")[i].func]]]

\* evaluateExtFunc(start, end)
evaluateExtFunc(T, start, end) ==
  LET evaluator == [adjoints |-> T.adjoints, log |-> <<>>, curInnerPos |-> start.inner]
      X == forEachExtFunc(T, evaluator, start.chunk, start.data, end)
  IN  evaluateData(T, X.adjoints, X.log, X.curInnerPos, end.inner)

\* evaluate(start, end) up to the call of externalFunctions.forEach
evaluate_rejected(T) ==
  IF T.adjointsSize <= getMaximumGlobalIndex(T.indexHandler)
    THEN resizeAdjoints(T, getMaximumGlobalIndex(T.indexHandler) + 1)
    ELSE T

\* evaluate(start, end) that takes the replayed records off the tape
evaluate_rewind(T, start, end) ==
  LET T1 == IF T.adjointsSize <= getMaximumGlobalIndex(T.indexHandler)
              THEN resizeAdjoints(T, getMaximumGlobalIndex(T.indexHandler) + 1)
              ELSE T
      E == evaluateExtFunc(T1, start, end)
  IN  [tape |-> [T1 EXCEPT !.adjoints = E.adjoints,
                           !.externalFunctions = CVreset(@, end),
                           !.data = CVreset(@, end.inner),
                           !.statements = CVreset(@, end.inner.inner)],
       log |-> E.log]

\* evaluate(start, end) that leaves the tape passive and the index handler
\* as reset() leaves it
evaluate_release(T, start, end) ==
  LET T1 == IF T.adjointsSize <= getMaximumGlobalIndex(T.indexHandler)
              THEN resizeAdjoints(T, getMaximumGlobalIndex(T.indexHandler) + 1)
              ELSE T
      E == evaluateExtFunc(T1, start, end)
  IN  [tape |-> [T1 EXCEPT !.adjoints = E.adjoints,
                           !.active = FALSE,
                           !.indexHandler = indexHandlerReset(@)],
       log |-> E.log]

\* evaluate(start, end): the tape after it and the record of the replay
evaluate(T, start, end) ==
  LET T1 == IF T.adjointsSize <= getMaximumGlobalIndex(T.indexHandler)
              THEN resizeAdjoints(T, getMaximumGlobalIndex(T.indexHandler) + 1)
              ELSE T
      E == evaluateExtFunc(T1, start, end)
  IN  [tape |-> [T1 EXCEPT !.adjoints = E.adjoints], log |-> E.log]

(***************************************************************************)
(* Reset and teardown.  The delete functions called are recorded in a log  *)
(* like the one of the replay.                                             *)
(***************************************************************************)
\* the loop of clearAdjoints() writes within the adjoint vector
clearAdjointsInBounds(T) == getMaximumGlobalIndex(T.indexHandler) < T.adjointsSize

\* clearAdjoints(): adjoints[0..getMaximumGlobalIndex()] are set to zero; the
\* entries of the loop that lie in the adjoint vector are followed here
clearAdjoints(T) ==
  [T EXCEPT !.adjoints =
     [i \in 1..T.adjointsSize |->
        IF i - 1 <= getMaximumGlobalIndex(T.indexHandler) THEN 0 ELSE T.adjoints[i]]]

\* popExternalFunction(extFunction): deleteData() of the function is called
popExternalFunction(log, item) == Append(log, [k |-> "del", func |-> item.func])

\* ChunkVector::forEach on one chunk with popExternalFunction
RECURSIVE forEachDataPop(_, _, _, _)
forEachDataPop(log, items, dataPos, endPos) ==
  IF dataPos > endPos
    THEN forEachDataPop(popExternalFunction(log, items[dataPos]), items,
                        dataPos - 1, endPos)
    ELSE log

\* ChunkVector::forEach(start, end, popExternalFunction) on externalFunctions
RECURSIVE forEachPop(_, _, _, _, _)
forEachPop(T, log, curChunk, dataPos, end) ==
  IF curChunk > end.chunk
    THEN forEachPop(
           T,
           forEachDataPop(log, CVgetDataAtPosition(T.externalFunctions, curChunk),
                          dataPos, 0),
           curChunk - 1, CVgetChunkUsedData(T.externalFunctions, curChunk - 1), end)
    ELSE forEachDataPop(log, CVgetDataAtPosition(T.externalFunctions, end.chunk),
                        dataPos, end.data)

\* externalFunctions.reset(pos): the reset goes through the nested vectors
resetVectors(T, pos) ==
  [T EXCEPT !.externalFunctions = CVreset(@, pos),
            !.data = CVreset(@, pos.inner),
            !.statements = CVreset(@, pos.inner.inner)]

\* reset(pos) up to the call of externalFunctions.forEach
reset_rejected(T) == clearAdjoints(T)

\* reset(pos) that resets externalFunctions and not the vectors nested in it
reset_outerOnly(T, pos) ==
  LET T1 == clearAdjoints(T)
      start == getPosition(T1)
      log == forEachPop(T1, <<>>, start.chunk, start.data, pos)
      T2 == [T1 EXCEPT !.externalFunctions = CVreset(@, pos)]
  IN  [tape |-> [T2 EXCEPT !.indexHandler = indexHandlerReset(@)], log |-> log]

\* reset(pos) that leaves the chunk vectors as they are
reset_noTruncate(T, pos) ==
  LET T1 == clearAdjoints(T)
      start == getPosition(T1)
      log == forEachPop(T1, <<>>, start.chunk, start.data, pos)
  IN  [tape |-> [T1 EXCEPT !.indexHandler = indexHandlerReset(@)], log |-> log]

\* reset(pos) that also ends the recording
reset_setPassive(T, pos) ==
  LET T1 == clearAdjoints(T)
      start == getPosition(T1)
      log == forEachPop(T1, <<>>, start.chunk, start.data, pos)
      T2 == resetVectors(T1, pos)
  IN  [tape |-> [T2 EXCEPT !.indexHandler = indexHandlerReset(@), !.active = FALSE],
       log |-> log]

\* reset(pos): the tape after it and the delete functions it has called
reset(T, pos) ==
  LET T1 == clearAdjoints(T)
      start == getPosition(T1)
      log == forEachPop(T1, <<>>, start.chunk, start.data, pos)
      T2 == resetVectors(T1, pos)
  IN  [tape |-> [T2 EXCEPT !.indexHandler = indexHandlerReset(@)], log |-> log]

\* reset(): the reset to the default constructed position
resetAll(T) == reset(T, InitialPosition)

\* ~ChunkIndexTape(): the class defines no destructor; the members are
\* destroyed and no delete function is called
destroyTape(T) == [tape |-> T, log |-> <<>>]

\* the tape holds no identity beyond the adjoint vector evaluate() works on
ReplayInBounds(T) ==
  LET size == IF T.adjointsSize <= getMaximumGlobalIndex(T.indexHandler)
                THEN getMaximumGlobalIndex(T.indexHandler) + 1
                ELSE T.adjointsSize
  IN  /\ \A i \in 1..Len(CVitems(T.statements)) : CVitems(T.statements)[i].lhs < size
      /\ \A i \in 1..Len(CVitems(T.data)) : CVitems(T.data)[i].idx < size

(***************************************************************************)
(* The program: NumVars ActiveReal objects on one global tape.             *)
(***************************************************************************)
VARIABLES
  tape,          \* ActiveReal::globalTape
  live,          \* live[v]: the ActiveReal v is constructed and not destroyed
  primalValue,   \* ActiveReal::primalValue
  gradientData,  \* ActiveReal::gradientData
  nextFunc,      \* number of external functions pushed so far
  ref,           \* the same calls made on a tape with the default chunk sizes
  refData,       \* gradientData of the variables in the run on ref
  deriv,         \* deriv[v][u]: derivative of v's value by the input u
  isInput,       \* isInput[u]: u holds the index registerInput gave it
  recOrder,      \* the statements and external functions in recording order
  posHist,       \* the positions getPosition() has been able to return
  last,          \* the last call and what it started from
  deleted,       \* deleted[f]: how often the delete function of f's data ran
  resets,        \* number of reset calls so far
  limits         \* the size of this run, one of Limits

vars == <<tape, live, primalValue, gradientData, nextFunc, ref, refData, deriv,
          isInput, recOrder, posHist, last, deleted, resets, limits>>

Zero == [u \in Vars |-> 0]
Unit(v) == [u \in Vars |-> IF u = v THEN 1 ELSE 0]

\* chunk sizes that hold every statement's jacobi entries in one chunk
DataChunkSizes == {MaxTerms}
ExtChunkSizes == {1}
\* every chunk size, down to 1
SmallChunkSizes == 1..MaxTerms

\* the statements, jacobi entries and external functions on the tape T
TapeItems(T) ==
  [statements |-> CVitems(T.statements),
   data |-> CVitems(T.data),
   externalFunctions |-> CVitems(T.externalFunctions)]

NoCall ==
  [op |-> "none", v |-> 0, src |-> 0, value |-> 0, start |-> 0, end |-> 0,
   pre |-> <<>>, log |-> <<>>, oob |-> FALSE]
\* the call op on the variable v with the right hand side variable src (or
\* 0) and the right hand side value
Call(op, v, src, value) ==
  IF limits.trace
    THEN [NoCall EXCEPT !.op = op, !.v = v, !.src = src, !.value = value]
    ELSE NoCall

\* the program starts; the reference tape is of a build with one of refOpts
InitRun(lims, dataSizes, extSizes, refOpts) ==
  /\ limits \in lims
  /\ \E s \in limits.stmtSizes, d \in dataSizes, e \in extSizes :
       tape = ChunkIndexTape(s, d, e)
  /\ \E o \in refOpts :
       ref = [ChunkIndexTape(DefaultChunkSize, DefaultChunkSize, DefaultExtChunkSize)
                EXCEPT !.opt = o]
  /\ live = [v \in Vars |-> FALSE]
  /\ primalValue = [v \in Vars |-> 0]
  /\ gradientData = [v \in Vars |-> 0]
  /\ refData = [v \in Vars |-> 0]
  /\ nextFunc = 0
  /\ deriv = [v \in Vars |-> Zero]
  /\ isInput = [v \in Vars |-> FALSE]
  /\ recOrder = <<>>
  /\ posHist = << [pos |-> InitialPosition, ref |-> InitialPosition, n |-> 0,
                    items |-> TapeItems(tape)] >>
  /\ last = NoCall
  /\ deleted = [f \in 1..MaxPushes |-> 0]
  /\ resets = 0

InitWith(lims, dataSizes, extSizes) == InitRun(lims, dataSizes, extSizes, {DefaultOptions})

Init == InitWith(Limits, DataChunkSizes, ExtChunkSizes)

\* the recorded items a call has added, named as the replay names them
NewItems(T, T1) ==
  (IF CVgetDataSize(T1.statements) > CVgetDataSize(T.statements)
     THEN << [k |-> "stmt", chunk |-> Len(T1.statements) - 1,
              pos |-> CVgetChunkPosition(T1.statements) - 1] >>
     ELSE <<>>)
  \o
  (IF CVgetDataSize(T1.externalFunctions) > CVgetDataSize(T.externalFunctions)
     THEN << [k |-> "ext", func |-> Last(Last(T1.externalFunctions).items).func] >>
     ELSE <<>>)

\* the calls after which a run makes no recording call: a replay is followed
\* by a reset only, the teardown of the tape and a crash by nothing
Final == {"evaluate", "teardown", "crash"}

\* deleted after the delete functions of the log have run
Released(log) ==
  [f \in 1..MaxPushes |->
     deleted[f] + Cardinality({i \in 1..Len(log) : log[i].k = "del" /\ log[i].func = f})]

\* a run records, then seeds, then replays: it records on cleared adjoints
\* and before the replay only
AdjointsClear ==
  /\ \A i \in 1..Len(tape.adjoints) : tape.adjoints[i] = 0
  /\ \A i \in 1..Len(ref.adjoints) : ref.adjoints[i] = 0
  /\ last.op \notin Final

\* bookkeeping of a call that takes the tape to T1 and the reference tape to R1
Recorded(T1, R1) ==
  /\ tape' = T1
  /\ ref' = R1
  /\ recOrder' = recOrder \o NewItems(tape, T1)
  /\ posHist' = IF getPosition(T1) = Last(posHist).pos
                  THEN posHist
                  ELSE Append(posHist, [pos |-> getPosition(T1),
                                        ref |-> getPosition(R1),
                                        n |-> Len(recOrder'),
                                        items |-> TapeItems(T1)])
  /\ CVgetDataSize(T1.statements) <= limits.stmts
  /\ CVgetDataSize(R1.statements) <= limits.stmts
  /\ Len(T1.data) <= limits.stmts + 1
  /\ Len(T1.indexHandler.free) <= limits.free
  /\ UNCHANGED <<deleted, resets, limits>>

\* the variable v is written by a store that leaves it with index and value
\* and with the derivatives d
Written(v, index, value, d) ==
  /\ gradientData' = [gradientData EXCEPT ![v] = index]
  /\ primalValue' = [primalValue EXCEPT ![v] = value]
  /\ isInput' = [isInput EXCEPT ![v] = @ /\ index = gradientData[v] /\ index # 0]
  /\ deriv' = [w \in Vars |->
                 IF w = v
                   THEN [u \in Vars |-> IF isInput'[u] THEN d[u] ELSE 0]
                   ELSE [u \in Vars |-> IF isInput'[u] THEN deriv[w][u] ELSE 0]]

\* the run on ref leaves the variable v with index
RefWritten(v, index) == refData' = [refData EXCEPT ![v] = index]

\* an out-of-bounds write may be kept or clobbered; both are followed
KeepChoice(kept, clobbered, keep) == keep \/ kept # clobbered

SetActive ==
  /\ tape' = setActive(tape)
  /\ ref' = setActive(ref)
  /\ AdjointsClear
  /\ last' = NoCall
  /\ UNCHANGED <<live, primalValue, gradientData, nextFunc, deriv, isInput,
                 recOrder, posHist, deleted, resets, limits, refData>>

SetPassive ==
  /\ tape' = setPassive(tape)
  /\ ref' = setPassive(ref)
  /\ AdjointsClear
  /\ last' = NoCall
  /\ UNCHANGED <<live, primalValue, gradientData, nextFunc, deriv, isInput,
                 recOrder, posHist, deleted, resets, limits, refData>>

\* ActiveReal(): the default constructor
Construct(v) ==
  /\ AdjointsClear /\ ~live[v] /\ v <= limits.vars /\ \A w \in 1..(v - 1) : live[w]
  /\ live' = [live EXCEPT ![v] = TRUE]
  /\ LET r == initGradientData(tape, 0)
     IN  /\ Written(v, r.index, r.value, Zero)
         /\ RefWritten(v, initGradientData(ref, 0).index)
         /\ Recorded(r.tape, initGradientData(ref, 0).tape)
  /\ last' = Call("construct", v, 0, 0)
  /\ UNCHANGED nextFunc

\* ActiveReal v(value, g)
ConstructGradient(v, value, g) ==
  /\ AdjointsClear /\ ~live[v] /\ v <= limits.vars /\ \A w \in 1..(v - 1) : live[w]
  /\ live' = [live EXCEPT ![v] = TRUE]
  /\ LET r == constructGradient(tape, value, g)
         rr == constructGradient(ref, value, g)
     IN  /\ Written(v, r.index, r.value, Zero)
         /\ RefWritten(v, rr.index)
         /\ Recorded(r.tape, rr.tape)
  /\ last' = Call("constructGradient", v, 0, value)
  /\ UNCHANGED nextFunc

\* ~ActiveReal()
Destroy(v) ==
  /\ AdjointsClear /\ live[v]
  /\ live' = [live EXCEPT ![v] = FALSE]
  /\ LET r == destroyGradientData(tape, gradientData[v], primalValue[v])
         rr == destroyGradientData(ref, refData[v], primalValue[v])
     IN  /\ Written(v, r.index, 0, Zero)
         /\ RefWritten(v, rr.index)
         /\ Recorded(r.tape, rr.tape)
  /\ last' = Call("destroy", v, 0, 0)
  /\ UNCHANGED nextFunc

\* the right hand sides of n leaves jac * var over the live variables
RECURSIVE TermsOf(_)
TermsOf(n) ==
  IF n = 0
    THEN {<<>>}
    ELSE {Append(t, l) : t \in TermsOf(n - 1),
                         l \in [jac : CoefsAt(n), var : {v \in Vars : live[v]}]}

\* the right hand sides of the model: 1..MaxTerms leaves
Terms == UNION {TermsOf(n) : n \in 1..limits.terms}

\* the leaves as the gradient callback reports them
Leaves(terms) ==
  [i \in 1..Len(terms) |-> [jac |-> terms[i].jac, idx |-> gradientData[terms[i].var]]]

\* the leaves as the gradient callback reports them in the run on ref
RefLeaves(terms) ==
  [i \in 1..Len(terms) |-> [jac |-> terms[i].jac, idx |-> refData[terms[i].var]]]

\* the derivative of the right hand side: the chain rule over its leaves
RECURSIVE ChainRule(_, _)
ChainRule(terms, u) ==
  IF terms = <<>>
    THEN 0
    ELSE (IF isfinite(terms[1].jac) THEN terms[1].jac * deriv[terms[1].var][u] ELSE 0)
         + ChainRule(Tail(terms), u)

Recording == tape.opt.tapeActivity => tape.active

\* ActiveReal::operator=(const Expression&)
AssignExpr(v, terms, rhsValue, keep) ==
  /\ AdjointsClear /\ live[v]
  /\ LET r == storeExpr(tape, gradientData[v], Leaves(terms), rhsValue, keep)
         k == storeExpr(tape, gradientData[v], Leaves(terms), rhsValue, TRUE)
         rr == storeExpr(ref, refData[v], RefLeaves(terms), rhsValue, TRUE)
     IN  /\ KeepChoice(k, r, keep)
         /\ Written(v, r.index, r.value,
                    IF Recording THEN [u \in Vars |-> ChainRule(terms, u)] ELSE Zero)
         /\ RefWritten(v, rr.index)
         /\ Recorded(r.tape, rr.tape)
  /\ last' = Call("storeExpr", v, 0, rhsValue)
  /\ UNCHANGED <<live, nextFunc>>

\* ActiveReal::operator=(const ActiveReal&)
AssignCopy(v, src) ==
  /\ AdjointsClear /\ live[v] /\ live[src]
  /\ LET r == storeCopy(tape, gradientData[v], gradientData[src], primalValue[src])
         rr == storeCopy(ref, refData[v], refData[src], primalValue[src])
     IN  /\ Written(v, r.index, r.value, IF Recording THEN deriv[src] ELSE Zero)
         /\ RefWritten(v, rr.index)
         /\ Recorded(r.tape, rr.tape)
  /\ last' = Call("storeCopy", v, src, primalValue[src])
  /\ UNCHANGED <<live, nextFunc>>

\* ActiveReal(const ActiveReal&): the copy constructor
ConstructCopy(v, src) ==
  /\ AdjointsClear /\ ~live[v] /\ live[src] /\ v <= limits.vars /\ \A w \in 1..(v - 1) : live[w]
  /\ live' = [live EXCEPT ![v] = TRUE]
  /\ LET i == initGradientData(tape, primalValue[v])
         ii == initGradientData(ref, primalValue[v])
         r == storeCopy(i.tape, i.index, gradientData[src], primalValue[src])
         rr == storeCopy(ii.tape, ii.index, refData[src], primalValue[src])
     IN  /\ Written(v, r.index, r.value, IF Recording THEN deriv[src] ELSE Zero)
         /\ RefWritten(v, rr.index)
         /\ Recorded(r.tape, rr.tape)
  /\ last' = Call("copyConstruct", v, src, primalValue[src])
  /\ UNCHANGED nextFunc

\* ActiveReal::operator=(const PassiveReal&)
AssignPassive(v, rhs) ==
  /\ AdjointsClear /\ live[v]
  /\ LET r == storePassive(tape, gradientData[v], rhs)
         rr == storePassive(ref, refData[v], rhs)
     IN  /\ Written(v, r.index, r.value, Zero)
         /\ RefWritten(v, rr.index)
         /\ Recorded(r.tape, rr.tape)
  /\ last' = Call("storePassive", v, 0, rhs)
  /\ UNCHANGED <<live, nextFunc>>

\* globalTape.store(v.getGradientData(), size) followed by the size calls
\* globalTape.pushJacobi(data, jac, value, index), one for each term
ManualStore(v, terms, keep) ==
  /\ AdjointsClear /\ live[v]
  /\ LET r == storeManual(tape, gradientData[v], Len(terms))
         rr == storeManual(ref, refData[v], Len(terms))
         refLeaves == [i \in 1..Len(terms) |->
                         [jac |-> terms[i].jac,
                          idx |-> IF terms[i].var = v
                                    THEN rr.index
                                    ELSE refData[terms[i].var]]]
         leaves == [i \in 1..Len(terms) |->
                      [jac |-> terms[i].jac,
                       idx |-> IF terms[i].var = v
                                 THEN r.index
                                 ELSE gradientData[terms[i].var]]]
         T1 == calcGradient(r.tape, leaves, keep)
     IN  /\ KeepChoice(calcGradient(r.tape, leaves, TRUE), T1, keep)
         /\ CVgetDataSize(T1.data) <= MaxTerms * limits.stmts
         /\ Written(v, r.index, primalValue[v],
                    IF Recording THEN [u \in Vars |-> ChainRule(terms, u)] ELSE deriv[v])
         /\ RefWritten(v, rr.index)
         /\ Recorded(T1, calcGradient(rr.tape, refLeaves, TRUE))
  /\ last' = Call("storeManual", v, 0, primalValue[v])
  /\ UNCHANGED <<live, nextFunc>>

\* globalTape.pushJacobi(data, jac, v.getValue(), v.getGradientData()) alone
PushJacobi(v, jac) ==
  /\ AdjointsClear /\ live[v]
  /\ LET T1 == pushJacobi(tape, jac, gradientData[v], TRUE)
     IN  /\ CVgetDataSize(T1.data) <= MaxTerms
         /\ Recorded(T1, pushJacobi(ref, jac, refData[v], TRUE))
  /\ last' = Call("pushJacobi", v, 0, jac)
  /\ UNCHANGED <<live, primalValue, gradientData, nextFunc, deriv, isInput, refData>>

\* globalTape.pushJacobi(data, v.getValue(), v.getGradientData()) alone
PushJacobiUnit(v) ==
  /\ AdjointsClear /\ live[v]
  /\ LET T1 == pushJacobiUnit(tape, gradientData[v], TRUE)
     IN  /\ CVgetDataSize(T1.data) <= MaxTerms
         /\ Recorded(T1, pushJacobiUnit(ref, refData[v], TRUE))
  /\ last' = Call("pushJacobiUnit", v, 0, 1)
  /\ UNCHANGED <<live, primalValue, gradientData, nextFunc, deriv, isInput, refData>>

\* the statement v = v + c as the reference run records it
RefIdentityStore(v, value) ==
  LET rr == storeExpr([ref EXCEPT !.active = TRUE], refData[v],
                      << [jac |-> 1, idx |-> refData[v]] >>, value, TRUE)
  IN  [tape |-> [rr.tape EXCEPT !.active = ref.active], index |-> rr.index]

\* v += c for a constant c; the reference run records v = v + c in its place
AddPassive(v, c) ==
  /\ AdjointsClear /\ live[v]
  /\ LET r == addPassive(tape, primalValue[v], gradientData[v], c)
         rr == RefIdentityStore(v, primalValue[v] + c)
     IN  /\ Abs(r.value) <= MaxValue
         /\ primalValue' = [primalValue EXCEPT ![v] = r.value]
         /\ gradientData' = [gradientData EXCEPT ![v] = r.index]
         /\ RefWritten(v, rr.index)
         /\ Recorded(r.tape, rr.tape)
  /\ last' = Call("addPassive", v, 0, c)
  /\ UNCHANGED <<live, nextFunc, deriv, isInput>>

\* v -= c for a constant c; the reference run records v = v - c in its place
SubPassive(v, c) ==
  /\ AdjointsClear /\ live[v]
  /\ LET r == subPassive(tape, primalValue[v], gradientData[v], c)
         rr == RefIdentityStore(v, primalValue[v] - c)
     IN  /\ Abs(r.value) <= MaxValue
         /\ primalValue' = [primalValue EXCEPT ![v] = r.value]
         /\ gradientData' = [gradientData EXCEPT ![v] = r.index]
         /\ RefWritten(v, rr.index)
         /\ Recorded(r.tape, rr.tape)
  /\ last' = Call("subPassive", v, 0, c)
  /\ UNCHANGED <<live, nextFunc, deriv, isInput>>

\* w = v++ for a variable w that is constructed by it
PostIncrement(w, v) ==
  /\ AdjointsClear /\ ~live[w] /\ live[v] /\ w <= limits.vars
  /\ \A u \in 1..(w - 1) : live[u]
  /\ live' = [live EXCEPT ![w] = TRUE]
  /\ w # v
  /\ LET r == postIncrement(tape, primalValue[v], gradientData[v])
         rr == postIncrement(ref, primalValue[v], refData[v])
     IN  /\ gradientData' = [gradientData EXCEPT ![w] = r.r.index, ![v] = r.self.index]
         /\ primalValue' = [primalValue EXCEPT ![w] = r.r.value, ![v] = r.self.value]
         /\ isInput' = [isInput EXCEPT
                          ![w] = FALSE,
                          ![v] = @ /\ r.self.index = gradientData[v] /\ r.self.index # 0]
         /\ deriv' = [u \in Vars |->
                        [i \in Vars |->
                           IF ~isInput'[i] THEN 0
                           ELSE IF u = w THEN (IF Recording THEN deriv[v][i] ELSE 0)
                           ELSE IF u = v THEN (IF Recording THEN 2 * deriv[v][i] ELSE 0)
                           ELSE deriv[u][i]]]
         /\ refData' = [refData EXCEPT ![w] = rr.r.index, ![v] = rr.self.index]
         /\ Recorded(r.tape, rr.tape)
  /\ last' = Call("postIncrement", v, w, primalValue[v])
  /\ UNCHANGED nextFunc

\* globalTape.registerInput(v)
RegisterInput(v) ==
  /\ AdjointsClear /\ live[v]
  /\ LET r == registerInput(tape, gradientData[v], primalValue[v])
         rr == registerInput(ref, refData[v], primalValue[v])
     IN  /\ gradientData' = [gradientData EXCEPT ![v] = r.index]
         /\ RefWritten(v, rr.index)
         /\ isInput' = [isInput EXCEPT ![v] = @ \/ gradientData[v] = 0]
         /\ deriv' = IF gradientData[v] = 0
                       THEN [deriv EXCEPT ![v] = Unit(v)]
                       ELSE deriv
         /\ Recorded(r.tape, rr.tape)
  /\ last' = Call("registerInput", v, 0, 0)
  /\ UNCHANGED <<live, primalValue, nextFunc>>

\* globalTape.pushExternalFunctionHandle(extFunc, data, delData)
PushExternalFunction ==
  /\ AdjointsClear /\ nextFunc < limits.ext
  /\ nextFunc' = nextFunc + 1
  /\ Recorded(pushExternalFunctionHandle(tape, nextFunc'),
              pushExternalFunctionHandle(ref, nextFunc'))
  /\ last' = Call("pushExternalFunction", 0, 0, 0)
  /\ UNCHANGED <<live, primalValue, gradientData, deriv, isInput, refData>>

\* v.setGradient(g)
SetGradient(v, g) ==
  /\ live[v] /\ last.op \notin Final
  /\ tape' = setGradient(tape, gradientData[v], g)
  /\ Cardinality({i \in 1..Len(tape'.adjoints) : tape'.adjoints[i] # 0}) <= limits.seeds
  /\ ref' = setGradient(ref, refData[v], g)
  /\ last' = NoCall
  /\ UNCHANGED <<live, primalValue, gradientData, nextFunc, deriv, isInput,
                 recOrder, posHist, deleted, resets, limits, refData>>

\* globalTape.setAdjointsSize(size)
SetAdjointsSize(size) ==
  /\ last.op \notin Final
  /\ tape' = setAdjointsSize(tape, size)
  /\ ref' = setAdjointsSize(ref, size)
  /\ last' = [NoCall EXCEPT !.op = "setAdjointsSize", !.value = size]
  /\ UNCHANGED <<live, primalValue, gradientData, nextFunc, deriv, isInput,
                 recOrder, posHist, deleted, resets, limits, refData>>

\* v.gradient() = g.  gradient() asserts that the identity is not 0: on the
\* identity 0 the call ends the program in a build with assertions (checked)
\* and goes on to adjoints[0] in a build without them.
WriteGradient(v, g, checked) ==
  /\ live[v] /\ last.op \notin Final
  /\ checked \/ gradientData[v] = 0
  /\ IF checked /\ gradientData[v] = 0
       THEN /\ last' = [NoCall EXCEPT !.op = "crash", !.v = v]
            /\ UNCHANGED <<tape, ref>>
       ELSE /\ tape' = [gradient(tape, gradientData[v]) EXCEPT
                          !.adjoints[gradientData[v] + 1] = g]
            /\ ref' = [gradient(ref, refData[v]) EXCEPT
                         !.adjoints[refData[v] + 1] = g]
            /\ Cardinality({i \in 1..Len(tape'.adjoints) : tape'.adjoints[i] # 0})
                 <= limits.seeds
            /\ last' = [NoCall EXCEPT !.op = "gradient", !.v = v, !.value = g]
  /\ UNCHANGED <<live, primalValue, gradientData, nextFunc, deriv, isInput,
                 recOrder, posHist, deleted, resets, limits, refData>>

\* globalTape.allocateAdjoints()
AllocateAdjoints ==
  /\ last.op \notin Final
  /\ tape' = allocateAdjoints(tape)
  /\ ref' = allocateAdjoints(ref)
  /\ last' = [NoCall EXCEPT !.op = "allocateAdjoints"]
  /\ UNCHANGED <<live, primalValue, gradientData, nextFunc, deriv, isInput,
                 recOrder, posHist, deleted, resets, limits, refData>>


\* the position of the reference run where the run on tape is at the i-th
\* position of its recording (getPosition() now for the last of them)
RefPosition(i) ==
  IF i = Len(posHist) THEN getPosition(ref) ELSE posHist[i].ref

\* globalTape.evaluate(start, end) for positions taken as the i-th and the
\* j-th of the recording, i after j
Evaluate(i, j) ==
  /\ i \in 1..Len(posHist) /\ j \in 1..(i - 1)
  /\ last.op \notin Final
  /\ ReplayInBounds(tape)
  /\ LET r == evaluate(tape, posHist[i].pos, posHist[j].pos)
         rr == evaluate(ref, RefPosition(i), RefPosition(j))
     IN  /\ \A k \in 1..Len(r.tape.adjoints) : Abs(r.tape.adjoints[k]) <= MaxAdj
         /\ tape' = r.tape
         /\ ref' = rr.tape
         /\ deleted' = Released(r.log)
         /\ last' = [NoCall EXCEPT !.op = "evaluate", !.start = i, !.end = j,
                                   !.pre = tape.adjoints, !.log = r.log]
  /\ UNCHANGED <<live, primalValue, gradientData, nextFunc, deriv, isInput,
                 recOrder, posHist, resets, limits, refData>>

\* globalTape.reset(pos) for the position taken as the j-th of the recording.
\* When the loop of clearAdjoints() leaves the adjoint vector the call
\* writes out of bounds: it may go on (survive) or end the program.
Reset(j, survive) ==
  /\ j \in 1..Len(posHist)
  /\ last.op \notin {"teardown", "crash"}
  /\ resets < limits.resets
  /\ resets' = resets + 1
  /\ survive \/ ~clearAdjointsInBounds(tape)
  /\ IF survive
       THEN LET r == reset(tape, posHist[j].pos)
                rr == reset(ref, RefPosition(j))
            IN  /\ tape' = r.tape
                /\ ref' = rr.tape
                /\ deleted' = Released(r.log)
                /\ recOrder' = SubSeq(recOrder, 1, posHist[j].n)
                /\ posHist' = SubSeq(posHist, 1, j)
                /\ last' = [NoCall EXCEPT !.op = "reset", !.start = Len(posHist),
                                          !.end = j, !.log = r.log,
                                          !.oob = ~clearAdjointsInBounds(tape)]
       ELSE /\ last' = [NoCall EXCEPT !.op = "crash", !.oob = TRUE]
            /\ UNCHANGED <<tape, ref, deleted, recOrder, posHist>>
  /\ UNCHANGED <<live, primalValue, gradientData, nextFunc, deriv, isInput, limits,
                 refData>>

\* the end of the program: globalTape is destroyed
Teardown ==
  /\ last.op \notin {"teardown", "crash"}
  /\ LET r == destroyTape(tape)
     IN  /\ tape' = r.tape
         /\ deleted' = Released(r.log)
         /\ last' = [NoCall EXCEPT !.op = "teardown", !.log = r.log]
  /\ UNCHANGED <<live, primalValue, gradientData, nextFunc, ref, deriv, isInput,
                 recOrder, posHist, resets, limits, refData>>

\* the (chunk, data) pair p of one layer lies before the pair q
PairLess(p, q) == p.chunk < q.chunk \/ (p.chunk = q.chunk /\ p.data < q.data)
PairLeq(p, q) == PairLess(p, q) \/ (p.chunk = q.chunk /\ p.data = q.data)

\* the position P is not behind Q in any of the three layers
PositionLeq(P, Q) ==
  /\ PairLeq(P, Q)
  /\ PairLeq(P.inner, Q.inner)
  /\ PairLeq(P.inner.inner, Q.inner.inner)

\* P lies before Q
PositionLess(P, Q) == PositionLeq(P, Q) /\ P # Q

\* globalTape.reset(pos) for a position of posHist that is not behind the
\* current one; the program keeps the positions it has taken
ResetBack(j, survive) ==
  /\ j \in 1..Len(posHist)
  /\ PositionLeq(posHist[j].pos, getPosition(tape))
  /\ last.op \notin {"teardown", "crash"}
  /\ resets < limits.resets
  /\ resets' = resets + 1
  /\ survive \/ ~clearAdjointsInBounds(tape)
  /\ IF survive
       THEN LET r == reset(tape, posHist[j].pos)
                rr == reset(ref, posHist[j].ref)
            IN  /\ tape' = r.tape
                /\ ref' = rr.tape
                /\ deleted' = Released(r.log)
                /\ last' = [NoCall EXCEPT !.op = "reset", !.start = Len(posHist),
                                          !.end = j, !.log = r.log,
                                          !.oob = ~clearAdjointsInBounds(tape)]
       ELSE /\ last' = [NoCall EXCEPT !.op = "crash", !.oob = TRUE]
            /\ UNCHANGED <<tape, ref, deleted>>
  /\ UNCHANGED <<live, primalValue, gradientData, nextFunc, deriv, isInput, limits,
                 recOrder, posHist, refData>>

\* globalTape.evaluate(start, end) with the i-th position taken as start and
\* the j-th as end, start before end.  externalFunctions.forEach(start, end)
\* ends the program when start lies before end in its own layer; otherwise
\* the call runs through.  The calls followed are those in which the loop of
\* evaluateExpressions reads no statement slot that was never written
\* (start.data <= end.data in the statement layer).
EvaluateReversed(i, j) ==
  /\ i \in 1..Len(posHist) /\ j \in 1..Len(posHist)
  /\ PositionLess(posHist[i].pos, posHist[j].pos)
  /\ PositionLeq(posHist[j].pos, getPosition(tape))
  /\ posHist[i].pos.inner.inner.data <= posHist[j].pos.inner.inner.data
  /\ last.op \notin Final
  /\ ReplayInBounds(tape)
  /\ IF PairLess(posHist[i].pos, posHist[j].pos)
       THEN /\ tape' = evaluate_rejected(tape)
            /\ ref' = evaluate_rejected(ref)
            /\ last' = [NoCall EXCEPT !.op = "crash"]
            /\ UNCHANGED deleted
       ELSE LET r == evaluate(tape, posHist[i].pos, posHist[j].pos)
                rr == evaluate(ref, posHist[i].ref, posHist[j].ref)
            IN  /\ tape' = r.tape
                /\ ref' = rr.tape
                /\ deleted' = Released(r.log)
                /\ last' = [NoCall EXCEPT !.op = "evaluate", !.start = i, !.end = j,
                                          !.pre = tape.adjoints, !.log = r.log]
  /\ UNCHANGED <<live, primalValue, gradientData, nextFunc, deriv, isInput,
                 recOrder, posHist, resets, limits, refData>>

\* globalTape.reset(pos) for a position the program took before a reset and
\* that lies behind the current one: clearAdjoints() runs, then the chunk
\* vectors end the program.  When the loop of clearAdjoints() leaves the
\* adjoint vector the program may end there.
ResetAhead(j, survive) ==
  /\ j \in 1..Len(posHist)
  /\ PositionLess(getPosition(tape), posHist[j].pos)
  /\ last.op \notin {"teardown", "crash"}
  /\ survive \/ ~clearAdjointsInBounds(tape)
  /\ tape' = IF survive THEN reset_rejected(tape) ELSE tape
  /\ ref' = IF survive THEN reset_rejected(ref) ELSE ref
  /\ last' = [NoCall EXCEPT !.op = "crash", !.oob = ~clearAdjointsInBounds(tape)]
  /\ UNCHANGED <<live, primalValue, gradientData, nextFunc, deriv, isInput,
                 recOrder, posHist, deleted, resets, limits, refData>>

Next ==
  \/ SetActive
  \/ SetPassive
  \/ \E v \in Vars : Construct(v)
  \/ \E v \in Vars : Destroy(v)
  \/ \E v \in Vars, terms \in Terms, rhsValue \in limits.values, keep \in BOOLEAN :
       AssignExpr(v, terms, rhsValue, keep)
  \/ \E v \in Vars, src \in Vars : AssignCopy(v, src)
  \/ \E v \in Vars, src \in Vars : ConstructCopy(v, src)
  \/ \E v \in Vars, rhs \in limits.values : AssignPassive(v, rhs)
  \/ \E v \in Vars : RegisterInput(v)
  \/ PushExternalFunction
  \/ \E v \in Vars, g \in Seeds : SetGradient(v, g)
  \/ \E i \in 1..Len(posHist), j \in 1..Len(posHist) : Evaluate(i, j)

Spec == Init /\ [][Next]_vars

\* the recording calls alone, with the last call kept in the state
InitStores == InitWith(TracedLimits, DataChunkSizes, ExtChunkSizes)

NextStores ==
  \/ SetActive
  \/ SetPassive
  \/ \E v \in Vars : Construct(v)
  \/ \E v \in Vars : Destroy(v)
  \/ \E v \in Vars, terms \in Terms, rhsValue \in limits.values, keep \in BOOLEAN :
       AssignExpr(v, terms, rhsValue, keep)
  \/ \E v \in Vars, src \in Vars : AssignCopy(v, src)
  \/ \E v \in Vars, src \in Vars : ConstructCopy(v, src)
  \/ \E v \in Vars, rhs \in limits.values : AssignPassive(v, rhs)
  \/ \E v \in Vars : RegisterInput(v)

SpecStores == InitStores /\ [][NextStores]_vars

\* the replay on tapes of every chunk size down to 1
InitSegments == InitWith(SegmentLimits, SmallChunkSizes, ExtChunkSizes)

SpecSegments == InitSegments /\ [][Next]_vars

\* the recording calls and the manual store
InitManual == InitWith(ManualLimits, DataChunkSizes, ExtChunkSizes)

NextManual ==
  \/ SetActive
  \/ SetPassive
  \/ \E v \in Vars : Construct(v)
  \/ \E v \in Vars : Destroy(v)
  \/ \E v \in Vars, terms \in Terms, rhsValue \in limits.values, keep \in BOOLEAN :
       AssignExpr(v, terms, rhsValue, keep)
  \/ \E v \in Vars, src \in Vars : AssignCopy(v, src)
  \/ \E v \in Vars, src \in Vars : ConstructCopy(v, src)
  \/ \E v \in Vars, rhs \in limits.values : AssignPassive(v, rhs)
  \/ \E v \in Vars : RegisterInput(v)
  \/ \E v \in Vars, terms \in Terms, keep \in BOOLEAN : ManualStore(v, terms, keep)

SpecManual == InitManual /\ [][NextManual]_vars

\* the calls of pushJacobi one by one, on a tape of the default chunk sizes
InitJacobi == InitWith(TracedLimits, {DefaultChunkSize}, {DefaultExtChunkSize})

NextJacobi ==
  \/ SetActive
  \/ SetPassive
  \/ \E v \in Vars : Construct(v)
  \/ \E v \in Vars : Destroy(v)
  \/ \E v \in Vars : RegisterInput(v)
  \/ \E v \in Vars, jac \in UNION {CoefsAt(i) : i \in 1..MaxTerms} : PushJacobi(v, jac)
  \/ \E v \in Vars : PushJacobiUnit(v)

SpecJacobi == InitJacobi /\ [][NextJacobi]_vars

\* the runs with resets and the teardown of the tape
InitReset == InitWith(ResetLimits, DataChunkSizes, ExtChunkSizes)

NextReset ==
  \/ Next
  \/ \E j \in 1..Len(posHist), survive \in BOOLEAN : Reset(j, survive)
  \/ Teardown

SpecReset == InitReset /\ [][NextReset]_vars

\* the runs that size the adjoint vector by hand
InitAdjoints == InitWith(AdjointLimits, DataChunkSizes, ExtChunkSizes)

NextAdjoints ==
  \/ Next
  \/ \E size \in 0..MaxAdjSize : SetAdjointsSize(size)
  \/ AllocateAdjoints
  \/ \E v \in Vars, g \in Seeds, checked \in BOOLEAN : WriteGradient(v, g, checked)

SpecAdjoints == InitAdjoints /\ [][NextAdjoints]_vars

\* the runs of registerInput with a reset
InitRegister == InitWith(RegisterLimits, DataChunkSizes, ExtChunkSizes)

NextRegister ==
  \/ SetActive
  \/ SetPassive
  \/ \E v \in Vars : Construct(v)
  \/ \E v \in Vars : Destroy(v)
  \/ \E v \in Vars, src \in Vars : AssignCopy(v, src)
  \/ \E v \in Vars : RegisterInput(v)
  \/ AllocateAdjoints
  \/ \E j \in 1..Len(posHist), survive \in BOOLEAN : Reset(j, survive)

SpecRegister == InitRegister /\ [][NextRegister]_vars

\* the same calls on the default build and on a build with a filter off
InitPolicies == InitRun(PolicyLimits, DataChunkSizes, ExtChunkSizes, PolicyOptions)

NextPolicies ==
  \/ SetActive
  \/ \E v \in Vars : Construct(v)
  \/ \E v \in Vars, terms \in Terms, rhsValue \in limits.values, keep \in BOOLEAN :
       AssignExpr(v, terms, rhsValue, keep)
  \/ \E v \in Vars : RegisterInput(v)
  \/ \E v \in Vars, g \in Seeds : SetGradient(v, g)
  \/ \E i \in 1..Len(posHist), j \in 1..Len(posHist) : Evaluate(i, j)

SpecPolicies == InitPolicies /\ [][NextPolicies]_vars

\* the runs with the compound assignments and the increments
InitOperators == InitWith(OperatorLimits, DataChunkSizes, ExtChunkSizes)

NextOperators ==
  \/ SetActive
  \/ SetPassive
  \/ \E v \in Vars : Construct(v)
  \/ \E v \in Vars : RegisterInput(v)
  \/ \E v \in Vars, terms \in Terms, rhsValue \in limits.values, keep \in BOOLEAN :
       AssignExpr(v, terms, rhsValue, keep)
  \/ \E v \in Vars, c \in 1..MaxValue : AddPassive(v, c)
  \/ \E v \in Vars, c \in 1..MaxValue : SubPassive(v, c)
  \/ \E w \in Vars, v \in Vars : PostIncrement(w, v)
  \/ \E v \in Vars, value \in 0..MaxValue, g \in {0} \cup Seeds : ConstructGradient(v, value, g)
  \/ \E v \in Vars, g \in Seeds : SetGradient(v, g)
  \/ \E i \in 1..Len(posHist), j \in 1..Len(posHist) : Evaluate(i, j)

SpecOperators == InitOperators /\ [][NextOperators]_vars

\* the runs that call evaluate and reset with positions in the wrong order
InitMisuse == InitWith(MisuseLimits, DataChunkSizes, ExtChunkSizes)

NextMisuse ==
  \/ SetActive
  \/ \E v \in Vars : Construct(v)
  \/ \E v \in Vars : RegisterInput(v)
  \/ \E v \in Vars, terms \in Terms, rhsValue \in limits.values, keep \in BOOLEAN :
       AssignExpr(v, terms, rhsValue, keep)
  \/ PushExternalFunction
  \/ \E v \in Vars, g \in Seeds : SetGradient(v, g)
  \/ \E j \in 1..Len(posHist), survive \in BOOLEAN : ResetBack(j, survive)
  \/ \E i \in 1..Len(posHist), j \in 1..Len(posHist) : EvaluateReversed(i, j)
  \/ \E j \in 1..Len(posHist), survive \in BOOLEAN : ResetAhead(j, survive)

SpecMisuse == InitMisuse /\ [][NextMisuse]_vars

\* the runs that record, size the adjoint vector, reset and replay
InitBounds == InitWith(BoundsLimits, DataChunkSizes, ExtChunkSizes)

NextBounds ==
  \/ SetActive
  \/ \E v \in Vars : Construct(v)
  \/ \E v \in Vars : RegisterInput(v)
  \/ \E v \in Vars, terms \in Terms, rhsValue \in limits.values, keep \in BOOLEAN :
       AssignExpr(v, terms, rhsValue, keep)
  \/ \E size \in 0..MaxAdjSize : SetAdjointsSize(size)
  \/ \E v \in Vars, g \in Seeds : SetGradient(v, g)
  \/ \E j \in 1..Len(posHist), survive \in BOOLEAN : Reset(j, survive)
  \/ \E i \in 1..Len(posHist), j \in 1..Len(posHist) : Evaluate(i, j)

SpecBounds == InitBounds /\ [][NextBounds]_vars

(***************************************************************************)
(* ChunkTape: the tape with two chunk vectors, operators nested on data    *)
(* nested on the expression counter.  A tape object T holds                *)
(* expressionCount, data, operators, active, the two chunk sizes cs and    *)
(* the switches opt.  An identity is the value of the expression counter   *)
(* when the record of the statement was appended.  The adjoint vector is   *)
(* left out: no recording call reads it.                                   *)
(***************************************************************************)
\* ChunkTape(): the constructor, followed by setOperatorChunkSize and
\* setDataChunkSize
ChunkTape(opSize, dataSize) ==
  LET data == ChunkVectorInit(0)
  IN  [expressionCount |-> 0,
       data |-> data,
       operators |-> ChunkVectorInit(CVgetPosition(data, 0)),
       active |-> FALSE,
       cs |-> [op |-> opSize, data |-> dataSize],
       opt |-> DefaultOptions]

\* data.getPosition(): its inner position is ExpressionCounter::getPosition()
chunkTapeDataPosition(T) == CVgetPosition(T.data, T.expressionCount)
\* ChunkTape::getPosition()
chunkTapeGetPosition(T) == CVgetPosition(T.operators, chunkTapeDataPosition(T))

\* ChunkTape::pushJacobi(gradient, jacobi, value, index); the overload
\* without a jacobi appends (1.0, index) under the same test of the index
chunkTapePushJacobi(T, jacobi, index) ==
  IF 0 # index /\ (T.opt.jacobiIsZero => 0 # jacobi)
    THEN LET item == [jac |-> jacobi, idx |-> index]
         IN  [T EXCEPT !.data = CVsetDataAndMove(@, item, T.cs.data, item)]
    ELSE T

\* rhs.calcGradient: the expression reports each leaf [jac, idx] by pushJacobi
RECURSIVE chunkTapeCalcGradient(_, _)
chunkTapeCalcGradient(T, leaves) ==
  IF leaves = <<>>
    THEN T
    ELSE chunkTapeCalcGradient(chunkTapePushJacobi(T, leaves[1].jac, leaves[1].idx),
                               Tail(leaves))

\* the store of an expression that takes the record for appended without
\* appending it
chunkTapeStore_noRecord(T, lhsIndex, leaves, rhsValue) ==
  IF T.opt.tapeActivity => T.active
    THEN LET T1 == [T EXCEPT !.data =
                      CVreserveItems(@, Len(leaves), T.cs.data, T.expressionCount)]
             T2 == [T1 EXCEPT !.operators =
                      CVreserveItems(@, 1, T.cs.op, chunkTapeDataPosition(T1))]
             startSize == CVgetChunkPosition(T2.data)
             T3 == chunkTapeCalcGradient(T2, leaves)
             activeVariables == CVgetChunkPosition(T3.data) - startSize
         IN  IF 0 = activeVariables
               THEN [tape |-> T3, index |-> 0, value |-> rhsValue]
               ELSE [tape |-> [T3 EXCEPT !.expressionCount = @ + 1],
                     index |-> T3.expressionCount + 1, value |-> rhsValue]
    ELSE [tape |-> T, index |-> lhsIndex, value |-> rhsValue]

\* ChunkTape::store(lhsValue, lhsIndex, rhs) for an expression rhs.  An
\* ActiveReal on the right is stored by this overload too: it is the exact
\* match, the overload for a variable is declared for another tape's type.
\* On a passive tape lhsIndex is left as it is.
chunkTapeStore(T, lhsIndex, leaves, rhsValue) ==
  IF T.opt.tapeActivity => T.active
    THEN LET T1 == [T EXCEPT !.data =
                      CVreserveItems(@, Len(leaves), T.cs.data, T.expressionCount)]
             T2 == [T1 EXCEPT !.operators =
                      CVreserveItems(@, 1, T.cs.op, chunkTapeDataPosition(T1))]
             startSize == CVgetChunkPosition(T2.data)
             T3 == chunkTapeCalcGradient(T2, leaves)
             activeVariables == CVgetChunkPosition(T3.data) - startSize
             op == [n |-> activeVariables]
         IN  IF 0 = activeVariables
               THEN [tape |-> T3, index |-> 0, value |-> rhsValue]
               ELSE [tape |-> [T3 EXCEPT
                                 !.operators = CVsetDataAndMove(@, op, T.cs.op, op),
                                 !.expressionCount = @ + 1],
                     index |-> T3.expressionCount + 1, value |-> rhsValue]
    ELSE [tape |-> T, index |-> lhsIndex, value |-> rhsValue]

\* ChunkTape::store(value, lhsIndex, rhs) for a passive rhs
chunkTapeStorePassive(T, lhsIndex, rhs) ==
  [tape |-> T,
   index |-> IF T.opt.tapeActivity => T.active THEN 0 ELSE lhsIndex,
   value |-> rhs]

\* ChunkTape::registerInput(value)
chunkTapeRegisterInput(T) ==
  LET T1 == [T EXCEPT !.operators =
               CVreserveItems(@, 1, T.cs.op, chunkTapeDataPosition(T))]
      op == [n |-> 0]
  IN  [tape |-> [T1 EXCEPT !.operators = CVsetDataAndMove(@, op, T.cs.op, op),
                           !.expressionCount = @ + 1],
       index |-> T1.expressionCount + 1]

\* ChunkTape::reset(pos): operators.reset(pos) goes on to data and to the
\* expression counter with the inner positions
chunkTapeReset(T, pos) ==
  [T EXCEPT !.operators = CVreset(@, pos),
            !.data = CVreset(@, pos.inner),
            !.expressionCount = pos.inner.inner]

\* the runs on the ChunkTape: one variable and right hand sides of up to
\* MaxTerms leaves, or two variables and right hand sides of one leaf
ChunkTapeLimits ==
  {[vars |-> NumVars - 2, stmts |-> MaxStmts, terms |-> MaxTerms,
    values |-> {1}, opSizes |-> {1, 2}, resets |-> MaxResets - 1],
   [vars |-> NumVars - 1, stmts |-> MaxStmts, terms |-> MaxTerms - 1,
    values |-> {1}, opSizes |-> {1, 2}, resets |-> MaxResets - 1]}

\* the program starts with a ChunkTape as globalTape
InitChunkTape ==
  /\ limits \in ChunkTapeLimits
  /\ \E s \in limits.opSizes, d \in DataChunkSizes : tape = ChunkTape(s, d)
  /\ ref = tape
  /\ live = [v \in Vars |-> FALSE]
  /\ primalValue = [v \in Vars |-> 0]
  /\ gradientData = [v \in Vars |-> 0]
  /\ refData = [v \in Vars |-> 0]
  /\ nextFunc = 0
  /\ deriv = [v \in Vars |-> Zero]
  /\ isInput = [v \in Vars |-> FALSE]
  /\ recOrder = <<>>
  /\ posHist = << [pos |-> chunkTapeGetPosition(tape)] >>
  /\ last = NoCall
  /\ deleted = [f \in 1..MaxPushes |-> 0]
  /\ resets = 0

\* bookkeeping of a call that takes the ChunkTape to T1
ChunkTapeRecorded(T1) ==
  /\ T1.expressionCount <= limits.stmts
  /\ tape' = T1
  /\ posHist' = IF chunkTapeGetPosition(T1) = Last(posHist).pos
                  THEN posHist
                  ELSE Append(posHist, [pos |-> chunkTapeGetPosition(T1)])
  /\ UNCHANGED <<nextFunc, ref, refData, deriv, isInput, recOrder, deleted, resets,
                 limits>>

\* globalTape.setActive()
ChunkTapeSetActive ==
  /\ last.op # "crash"
  /\ ChunkTapeRecorded([tape EXCEPT !.active = TRUE])
  /\ last' = [NoCall EXCEPT !.op = "setActive"]
  /\ UNCHANGED <<live, primalValue, gradientData>>

\* globalTape.setPassive()
ChunkTapeSetPassive ==
  /\ last.op # "crash"
  /\ ChunkTapeRecorded([tape EXCEPT !.active = FALSE])
  /\ last' = [NoCall EXCEPT !.op = "setPassive"]
  /\ UNCHANGED <<live, primalValue, gradientData>>

\* ActiveReal(): initGradientData sets the identity to 0
ChunkTapeConstruct(v) ==
  /\ last.op # "crash"
  /\ ~live[v] /\ v <= limits.vars /\ \A w \in 1..(v - 1) : live[w]
  /\ live' = [live EXCEPT ![v] = TRUE]
  /\ gradientData' = [gradientData EXCEPT ![v] = 0]
  /\ primalValue' = [primalValue EXCEPT ![v] = 0]
  /\ ChunkTapeRecorded(tape)
  /\ last' = [NoCall EXCEPT !.op = "construct", !.v = v]

\* ActiveReal::operator=(const Expression&) with globalTape a ChunkTape
ChunkTapeAssignExpr(v, terms, rhsValue) ==
  /\ last.op # "crash" /\ live[v]
  /\ LET r == chunkTapeStore(tape, gradientData[v], Leaves(terms), rhsValue)
     IN  /\ ChunkTapeRecorded(r.tape)
         /\ gradientData' = [gradientData EXCEPT ![v] = r.index]
         /\ primalValue' = [primalValue EXCEPT ![v] = r.value]
  /\ last' = [NoCall EXCEPT !.op = "store", !.v = v, !.value = rhsValue]
  /\ UNCHANGED live

\* ActiveReal::operator=(const ActiveReal&): the right hand side reports
\* itself as the one leaf (1.0, its identity)
ChunkTapeAssignCopy(v, src) ==
  /\ last.op # "crash" /\ live[v] /\ live[src]
  /\ LET leaves == << [jac |-> 1, idx |-> gradientData[src]] >>
         r == chunkTapeStore(tape, gradientData[v], leaves, primalValue[src])
     IN  /\ ChunkTapeRecorded(r.tape)
         /\ gradientData' = [gradientData EXCEPT ![v] = r.index]
         /\ primalValue' = [primalValue EXCEPT ![v] = r.value]
         /\ last' = [NoCall EXCEPT !.op = "store", !.v = v,
                                   !.value = primalValue[src]]
  /\ UNCHANGED live

\* ActiveReal::operator=(const PassiveReal&)
ChunkTapeAssignPassive(v, rhs) ==
  /\ last.op # "crash" /\ live[v]
  /\ LET r == chunkTapeStorePassive(tape, gradientData[v], rhs)
     IN  /\ ChunkTapeRecorded(r.tape)
         /\ gradientData' = [gradientData EXCEPT ![v] = r.index]
         /\ primalValue' = [primalValue EXCEPT ![v] = r.value]
  /\ last' = [NoCall EXCEPT !.op = "store", !.v = v, !.value = rhs]
  /\ UNCHANGED live

\* globalTape.registerInput(v)
ChunkTapeRegisterInput(v) ==
  /\ last.op # "crash" /\ live[v]
  /\ LET r == chunkTapeRegisterInput(tape)
     IN  /\ ChunkTapeRecorded(r.tape)
         /\ gradientData' = [gradientData EXCEPT ![v] = r.index]
  /\ last' = [NoCall EXCEPT !.op = "registerInput", !.v = v]
  /\ UNCHANGED <<live, primalValue>>

\* globalTape.reset(pos) for the position taken as the j-th of the recording.
\* The loop in front of operators.reset writes adjoints[pos.inner.inner] to
\* adjoints[expressionCount.count] whatever the size of the adjoint vector
\* is: the call goes on (survive) or ends the program.
ChunkTapeReset(j, survive) ==
  /\ last.op # "crash"
  /\ j \in 1..Len(posHist)
  /\ resets < limits.resets
  /\ resets' = resets + 1
  /\ IF survive
       THEN /\ tape' = chunkTapeReset(tape, posHist[j].pos)
            /\ posHist' = SubSeq(posHist, 1, j)
            /\ last' = [NoCall EXCEPT !.op = "reset", !.start = Len(posHist),
                                      !.end = j]
       ELSE /\ last' = [NoCall EXCEPT !.op = "crash", !.oob = TRUE]
            /\ UNCHANGED <<tape, posHist>>
  /\ UNCHANGED <<live, primalValue, gradientData, nextFunc, ref, refData, deriv,
                 isInput, recOrder, deleted, limits>>

NextChunkTape ==
  \/ ChunkTapeSetActive
  \/ ChunkTapeSetPassive
  \/ \E v \in Vars : ChunkTapeConstruct(v)
  \/ \E v \in Vars, terms \in Terms, rhsValue \in limits.values :
       ChunkTapeAssignExpr(v, terms, rhsValue)
  \/ \E v \in Vars, src \in Vars : ChunkTapeAssignCopy(v, src)
  \/ \E v \in Vars, rhs \in limits.values : ChunkTapeAssignPassive(v, rhs)
  \/ \E v \in Vars : ChunkTapeRegisterInput(v)
  \/ \E j \in 1..Len(posHist), survive \in BOOLEAN : ChunkTapeReset(j, survive)

SpecChunkTape == InitChunkTape /\ [][NextChunkTape]_vars

(***************************************************************************)
(* Properties of the replay.                                               *)
(***************************************************************************)
\* the statements and the jacobi entries of the tape in recording order
Statements == CVitems(tape.statements)
Jacobies == CVitems(tape.data)

\* the adjoint vector is 1 at index and 0 everywhere else
IsSeedOf(adjoints, index) ==
  /\ index # 0 /\ index < Len(adjoints)
  /\ \A i \in 1..Len(adjoints) : adjoints[i] = IF i = index + 1 THEN 1 ELSE 0

\* the last call was evaluate() over the whole recording
FullReplay == last.op = "evaluate" /\ last.start = Len(posHist) /\ last.end = 1

\* the tape holds the one statement y = c1*x1 + ... + cn*xn over distinct
\* identities, none of them that of y; adjoint(y) was seeded with 1 and
\* evaluate() has run
C1_Case ==
  /\ FullReplay
  /\ Len(Statements) = 1
  /\ Len(Jacobies) = Statements[1].n
  /\ \A i, j \in 1..Len(Jacobies) : i # j => Jacobies[i].idx # Jacobies[j].idx
  /\ \A i \in 1..Len(Jacobies) : Jacobies[i].idx # Statements[1].lhs
  /\ IsSeedOf(last.pre, Statements[1].lhs)

\* C1: after seeding adjoint(y) = 1 and evaluate() on a tape holding the
\* single statement y = c1*x1 + ... + cn*xn, adjoint(xi) = ci for every i
\* and adjoint(y) = 0.
C1_SingleStatement ==
  C1_Case =>
    /\ \A i \in 1..Len(Jacobies) :
         Adj(tape.adjoints, Jacobies[i].idx) = Jacobies[i].jac
    /\ Adj(tape.adjoints, Statements[1].lhs) = 0

C1_Witness ==
  /\ C1_Case
  /\ Len(Jacobies) = 2
  /\ Adj(tape.adjoints, Jacobies[1].idx) = 2
  /\ Adj(tape.adjoints, Jacobies[2].idx) = 3

\* C2: after seeding adjoint(y) = 1 for a variable y and evaluate(), the
\* adjoint of every registered input u is the chain-rule derivative of y
\* with respect to u.
C2_ChainRule ==
  \A y \in Vars :
    (FullReplay /\ live[y] /\ IsSeedOf(last.pre, gradientData[y])) =>
      \A u \in Vars :
        isInput[u] => Adj(tape.adjoints, gradientData[u]) = deriv[y][u]

\* the recorded items between the positions posHist[j] and posHist[i]
RecordedBetween(i, j) == SubSeq(recOrder, posHist[j].n + 1, posHist[i].n)

\* C3: evaluate(start, end) replays the statements and the external
\* functions recorded between end and start in the reverse of the recording
\* order, each of them once.
C3_ReverseOrder ==
  last.op = "evaluate" => last.log = Reverse(RecordedBetween(last.start, last.end))

C3_Witness ==
  /\ last.op = "evaluate"
  /\ Len(last.log) = 3
  /\ last.log[1].k = "stmt" /\ last.log[2].k = "ext" /\ last.log[3].k = "stmt"

\* the tape as it was before the last evaluate
TapeBefore ==
  [tape EXCEPT !.adjoints = last.pre, !.adjointsSize = Len(last.pre)]

\* evaluate(P3, P2) followed by evaluate(P2, P1) on the tape T
evaluateSplit(T, P3, P2, P1) ==
  LET A == evaluate(T, P3, P2)
      B == evaluate(A.tape, P2, P1)
  IN  [tape |-> B.tape, log |-> A.log \o B.log]

\* C4: for positions P1 <= P2 <= P3, evaluate(P3, P1) leaves the adjoints and
\* calls the external functions as evaluate(P3, P2) followed by
\* evaluate(P2, P1) does from the same adjoints.
C4_Split ==
  last.op = "evaluate" =>
    \A k \in last.end..last.start :
      LET S == evaluateSplit(TapeBefore, posHist[last.start].pos, posHist[k].pos,
                             posHist[last.end].pos)
      IN  /\ S.tape.adjoints = tape.adjoints
          /\ S.log = last.log

C4_Witness ==
  /\ last.op = "evaluate"
  /\ last.start = 3 /\ last.end = 1
  /\ \E i \in 1..Len(last.pre) : last.pre[i] # 0
  /\ \E i \in 1..Len(tape.adjoints) : tape.adjoints[i] > 1
  /\ evaluate(TapeBefore, posHist[3].pos, posHist[2].pos).tape.adjoints
       \notin {last.pre, tape.adjoints}

\* the adjoints after evaluating the last evaluated range once more
EvaluatedAgain ==
  evaluate(tape, posHist[last.start].pos, posHist[last.end].pos).tape.adjoints

\* the number of statements among the first n recorded items
StmtCount(n) == Cardinality({i \in 1..n : recOrder[i].k = "stmt"})

\* the identities the s-th statement of the tape reads
InputsOf(s) ==
  LET before == SeqSum([t \in 1..(s - 1) |-> Statements[t].n])
  IN  {Jacobies[before + i].idx : i \in 1..Statements[s].n}

\* no statement between the positions posHist[j] and posHist[i] writes an
\* identity that it or an earlier statement of the range reads
NoOverwrittenInput(i, j) ==
  \A s \in (StmtCount(posHist[j].n) + 1)..StmtCount(posHist[i].n) :
    \A t \in (StmtCount(posHist[j].n) + 1)..s :
      Statements[s].lhs \notin InputsOf(t)

C6_SegmentSize ==
  last.op = "evaluate" => tape.adjoints = ref.adjoints

(***************************************************************************)
(* Properties of the recording.                                            *)
(***************************************************************************)
\* C7: the argument counts of the statements on the tape add up to the
\* number of jacobi entries on the tape.
C7_CountsReconcile ==
  SeqSum([s \in 1..Len(Statements) |-> Statements[s].n]) = Len(Jacobies)

\* the jacobi entries a recording step appends
Appended == SubSeq(Jacobies', Len(Jacobies) + 1, Len(Jacobies'))

\* no other live variable holds the identity that v ends with
FreshFor(v) ==
  \A w \in Vars \ {v} : live[w] => gradientData[w] # gradientData'[v]

\* what C8 says of a step that is v = expression on the active tape
C8_Step(v) ==
  /\ primalValue'[v] = last'.value
  /\ Jacobies' = Jacobies \o Appended
  /\ IF Appended = <<>>
       THEN /\ Statements' = Statements
            /\ gradientData'[v] = 0
       ELSE /\ gradientData'[v] # 0
            /\ gradientData[v] # 0 => gradientData'[v] = gradientData[v]
            /\ gradientData[v] = 0 => FreshFor(v)
            /\ Statements' =
                 Append(Statements, [n |-> Len(Appended), lhs |-> gradientData'[v]])

C9_Step(v) ==
  /\ primalValue'[v] = last'.value
  /\ gradientData'[v] = 0
  /\ tape'.statements = tape.statements
  /\ tape'.data = tape.data
  /\ tape'.externalFunctions = tape.externalFunctions
  /\ getPosition(tape') = getPosition(tape)

\* C9: on the passive tape a store of an expression, of a variable (by
\* assignment or by the copy constructor) or of a constant sets the output value to the value of the right hand side,
\* leaves the output with identity 0 and leaves the three chunk vectors and
\* getPosition() as they were.
C9_PassiveStore ==
  [][(last'.op \in {"storeExpr", "storeCopy", "copyConstruct", "storePassive"}
      /\ ~tape.active)
       => C9_Step(last'.v)]_vars

C9_Witness ==
  /\ last.op \in {"storeExpr", "storeCopy"} /\ ~tape.active
  /\ primalValue[last.v] = 1 /\ gradientData[last.v] = 0
  /\ tape.indexHandler.free # <<>>
  /\ \E w \in Vars : gradientData[w] # 0

\* what C10 says of a step that is v = src on the active tape
C10_Step(v, src) ==
  /\ primalValue'[v] = primalValue[src]
  /\ IF gradientData[src] # 0
       THEN /\ Jacobies' = Append(Jacobies, [jac |-> 1, idx |-> gradientData[src]])
            /\ Statements' = Append(Statements, [n |-> 1, lhs |-> gradientData'[v]])
            /\ gradientData'[v] # 0
            /\ v # src => gradientData'[v] # gradientData[src]
       ELSE /\ Jacobies' = Jacobies
            /\ Statements' = Statements
            /\ gradientData'[v] = 0

C11_Step(v) ==
  /\ primalValue'[v] = last'.value
  /\ gradientData'[v] = 0
  /\ gradientData[v] # 0 =>
       checkIndex(tape'.indexHandler, 0).index = gradientData[v]
  /\ tape'.statements = tape.statements
  /\ tape'.data = tape.data
  /\ tape'.externalFunctions = tape.externalFunctions

\* C11: the store of a constant, on the active as on the passive tape,
\* leaves the output with identity 0, makes its old identity the one the
\* next checkIndex of a variable without identity hands out, and appends
\* nothing to the three chunk vectors.
C11_ConstantStore ==
  [][last'.op = "storePassive" => C11_Step(last'.v)]_vars

C11_Witness ==
  /\ last.op = "storePassive" /\ tape.active
  /\ gradientData[last.v] = 0 /\ primalValue[last.v] = 1
  /\ Len(Statements) = 1
  /\ tape.indexHandler.free = << Statements[1].lhs >>

\* what C12 says of a step that is pushJacobi(jac, value, index)
C12_Step(jac, index) ==
  /\ Jacobies' = IF index # 0 /\ isfinite(jac) /\ jac # 0
                   THEN Append(Jacobies, [jac |-> jac, idx |-> index])
                   ELSE Jacobies
  /\ tape'.statements = tape.statements
  /\ tape'.externalFunctions = tape.externalFunctions

\* what C12 says of a step that is pushJacobi(value, index)
C12_UnitStep(index) ==
  /\ Jacobies' = IF index # 0
                   THEN Append(Jacobies, [jac |-> 1, idx |-> index])
                   ELSE Jacobies
  /\ tape'.statements = tape.statements
  /\ tape'.externalFunctions = tape.externalFunctions

\* C12: pushJacobi(jac, value, index) appends the one entry (jac, index)
\* when index is not 0 and jac is finite and not zero, and nothing
\* otherwise; pushJacobi(value, index) appends the one entry (1, index) when
\* index is not 0, and nothing otherwise.
C12_PushJacobi ==
  [][/\ last'.op = "pushJacobi" => C12_Step(last'.value, gradientData[last'.v])
     /\ last'.op = "pushJacobiUnit" => C12_UnitStep(gradientData[last'.v])]_vars

C12_Witness ==
  /\ last.op = "pushJacobi" /\ last.value = 0 /\ gradientData[last.v] # 0
  /\ Len(Jacobies) = 2
  /\ Jacobies[1].jac = 1 /\ Jacobies[2].jac = 3

(***************************************************************************)
(* Properties of the identities.                                           *)
(***************************************************************************)
\* the identities on the free list of the index handler
FreeIndices == {tape.indexHandler.free[i] : i \in 1..Len(tape.indexHandler.free)}

\* C13: in a run without reset no two live variables hold the same nonzero
\* identity, and no nonzero identity of a live variable is on the free list
\* of the index handler.
C13_UniqueIdentities ==
  \A v \in Vars :
    (live[v] /\ gradientData[v] # 0) =>
      /\ \A w \in Vars \ {v} : live[w] => gradientData[w] # gradientData[v]
      /\ gradientData[v] \notin FreeIndices

C13_Witness ==
  /\ last.op = "evaluate"
  /\ tape.indexHandler.free # <<>>
  /\ \E v \in Vars : live[v] /\ gradientData[v] = tape.indexHandler.count
  /\ \E v \in Vars : live[v] /\ gradientData[v] = 0

\* the last call was reset() or reset(Position()), it has stayed within the
\* adjoint vector and has returned
FullReset == last.op = "reset" /\ last.end = 1 /\ ~last.oob

\* C14: after a full reset every live variable has identity 0 (no identity
\* has been issued since), so that no variable holds an identity from before
\* the reset.
C14_NoStaleIdentity ==
  FullReset => \A v \in Vars : live[v] => gradientData[v] = 0

\* what C15 says of a step that gives the variable v an identity
C15_Issued(v) ==
  IF tape.indexHandler.free # <<>>
    THEN /\ gradientData'[v] = Last(tape.indexHandler.free)
         /\ getMaximumGlobalIndex(tape'.indexHandler)
              = getMaximumGlobalIndex(tape.indexHandler)
    ELSE /\ gradientData'[v] = getMaximumGlobalIndex(tape.indexHandler) + 1
         /\ getMaximumGlobalIndex(tape'.indexHandler) = gradientData'[v]

\* C15: a step that gives a variable without identity an identity hands out
\* the identity freed last when the free list holds one, and the next new
\* one otherwise; getMaximumGlobalIndex() goes down in no step but a reset.
C15_Allocator ==
  [][/\ \A v \in Vars :
          (gradientData[v] = 0 /\ gradientData'[v] # 0) => C15_Issued(v)
     /\ last'.op # "reset" =>
          getMaximumGlobalIndex(tape'.indexHandler)
            >= getMaximumGlobalIndex(tape.indexHandler)]_vars

\* registerInput has given last.v the identity 1 a second time: the
\* statement of w was recorded on identity 1 before last.v became an input
C15_Witness ==
  /\ last.op = "registerInput" /\ resets = 0
  /\ getMaximumGlobalIndex(tape.indexHandler) = 2
  /\ tape.indexHandler.free = <<>>
  /\ gradientData[last.v] = 1 /\ isInput[last.v]
  /\ Jacobies = << [jac |-> 2, idx |-> 1] >>
  /\ \E w \in Vars \ {last.v} :
       /\ live[w] /\ Statements = << [n |-> 1, lhs |-> gradientData[w]] >>
       /\ deriv[w][last.v] = 0

(***************************************************************************)
(* Properties of the external functions.                                   *)
(***************************************************************************)
\* the external functions a log names with the kind k, in the order of the log
FuncsOf(log, k) ==
  LET sel == SelectSeq(log, LAMBDA e : e.k = k)
  IN  [i \in 1..Len(sel) |-> sel[i].func]

\* what C16 says of a step that is evaluate(start, end)
C16_Step ==
  /\ deleted' = deleted
  /\ FuncsOf(last'.log, "del") = <<>>
  /\ tape'.externalFunctions = tape.externalFunctions
  /\ \A i \in 1..Len(FuncsOf(last'.log, "ext")) :
       deleted[FuncsOf(last'.log, "ext")[i]] = 0
  /\ LET again == evaluate(tape', posHist[last'.start].pos, posHist[last'.end].pos)
     IN  /\ FuncsOf(again.log, "ext") = FuncsOf(last'.log, "ext")
         /\ FuncsOf(again.log, "del") = <<>>

\* C16: evaluate calls no delete function and leaves the external function
\* records on the tape, every function it calls has not had its data
\* deleted, and a second evaluate of the range calls the same functions.
C16_EvaluateKeepsRecords ==
  [][last'.op = "evaluate" => C16_Step]_vars

\* an evaluate that has called a function, after a reset that has deleted
\* the data of another
C16_Witness ==
  /\ last.op = "evaluate" /\ resets > 0
  /\ FuncsOf(last.log, "ext") # <<>>
  /\ \E f \in 1..MaxPushes : deleted[f] = 1

\* the external functions recorded after the position posHist[j]
PushedAfter(j) ==
  LET funcs == FuncsOf(SubSeq(recOrder, posHist[j].n + 1, Len(recOrder)), "ext")
  IN  {funcs[i] : i \in 1..Len(funcs)}

\* what C17 says of a step that is reset(posHist[j])
C17_Step(j) ==
  \A f \in 1..MaxPushes :
    deleted'[f] = deleted[f] + (IF f \in PushedAfter(j) THEN 1 ELSE 0)

\* C17: reset(target) calls the delete function once for every external
\* function recorded after target and for no other, and over a run no
\* function has its delete function called more than once.
C17_ResetReleases ==
  [][/\ last'.op = "reset" => C17_Step(last'.end)
     /\ \A f \in 1..MaxPushes : deleted'[f] <= 1]_vars

\* a reset has deleted the data of the second function and has left the
\* first on the tape
C17_Witness ==
  /\ last.op = "reset" /\ ~last.oob
  /\ FuncsOf(last.log, "del") = <<2>>
  /\ deleted = [f \in 1..MaxPushes |-> IF f = 2 THEN 1 ELSE 0]
  /\ CVgetDataSize(tape.externalFunctions) = 1
  /\ CVitems(tape.externalFunctions)[1].func = 1

\* C18: once the tape is destroyed the delete function of every external
\* function pushed in the run has been called once.
C18_TeardownReleases ==
  last.op = "teardown" => \A f \in 1..nextFunc : deleted[f] = 1

(***************************************************************************)
(* Properties of reset.                                                    *)
(***************************************************************************)
\* C19: after a reset that has stayed within the adjoint vector
\* getGradient(i) is 0 for every identity i.
C19_ResetClearsAdjoints ==
  (last.op = "reset" /\ ~last.oob) =>
    \A i \in 0..Len(tape.adjoints) : getGradient(tape, i) = 0

\* what C20 says of a step that is reset(posHist[j])
C20_Step(j) ==
  /\ getPosition(tape') = posHist[j].pos
  /\ TapeItems(tape') = posHist[j].items
  /\ j = 1 =>
       /\ getPosition(tape') = InitialPosition
       /\ CVgetDataSize(tape'.statements) = 0
       /\ CVgetDataSize(tape'.data) = 0
       /\ CVgetDataSize(tape'.externalFunctions) = 0

\* C20: after reset(P), for a position P of the recording, getPosition() is
\* P and the statements, jacobi entries and external functions on the tape
\* are those that were on it when getPosition() returned P; after reset()
\* the position is the initial one and the three chunk vectors are empty.
C20_ResetTruncates ==
  [][last'.op = "reset" => C20_Step(last'.end)]_vars

\* a reset to a position between two statements
C20_Witness ==
  /\ last.op = "reset" /\ ~last.oob
  /\ last.end > 1 /\ last.start > last.end
  /\ Len(Statements) = 1 /\ Len(Jacobies) = 1
  /\ Len(posHist[last.end].items.statements) = 1

(***************************************************************************)
(* Properties of the positions.                                            *)
(***************************************************************************)
\* every position of the recording lies before the positions taken after it
C21_Ordered ==
  \A i \in 1..Len(posHist) : \A j \in (i + 1)..Len(posHist) :
    /\ PositionLeq(posHist[i].pos, posHist[j].pos)
    /\ posHist[i].pos # posHist[j].pos

\* what C21 says of a step that is no reset
C21_Step ==
  /\ PositionLeq(getPosition(tape), getPosition(tape'))
  /\ CVitems(tape'.externalFunctions) # CVitems(tape.externalFunctions)
       => PairLess(getPosition(tape), getPosition(tape'))
  /\ Jacobies' # Jacobies
       => PairLess(getPosition(tape).inner, getPosition(tape').inner)
  /\ Statements' # Statements
       => PairLess(getPosition(tape).inner.inner, getPosition(tape').inner.inner)

\* C21: between resets a position taken later is not behind one taken
\* earlier in any of the three layers (external functions, jacobi entries,
\* statements; each layer compared by chunk, then by offset), and it is
\* ahead in the layer to which a call in between has appended.
C21_PositionsOrdered ==
  [][/\ last'.op # "reset" => C21_Step
     /\ C21_Ordered']_vars

\* a recording after a reset that has gone into a second statement chunk and
\* a second external function chunk
C21_Witness ==
  /\ resets > 0 /\ last.op \notin {"reset", "crash"}
  /\ Len(posHist) >= 4
  /\ getPosition(tape).chunk = 1
  /\ getPosition(tape).inner.inner.chunk = 1
  /\ getPosition(tape).inner.inner.data = 1

(***************************************************************************)
(* Properties of the adjoint vector.                                       *)
(***************************************************************************)
\* what C22 says of a step that is no reset
C22_Step ==
  /\ tape'.adjointsSize >= tape.adjointsSize
  /\ last'.op \in {"setAdjointsSize", "allocateAdjoints"} =>
       \A i \in 1..tape'.adjointsSize :
         tape'.adjoints[i] = IF i <= tape.adjointsSize THEN tape.adjoints[i] ELSE 0

\* C22: in a run without reset no call makes the adjoint vector shorter, and
\* setAdjointsSize and allocateAdjoints leave the entries it had as they
\* were and the entries they add at 0.
C22_NeverShrinks ==
  [][C22_Step]_vars

(***************************************************************************)
(* Properties of the recording flag.                                       *)
(***************************************************************************)
\* the calls on the tape T that the runs make one at a time only within a
\* store or a seed leave the flag alone
C23_Calls(T) ==
  \A v \in Vars :
    /\ \A jac \in UNION {CoefsAt(i) : i \in 1..MaxTerms} :
         isActive(pushJacobi(T, jac, gradientData[v], TRUE)) = isActive(T)
    /\ isActive(pushJacobiUnit(T, gradientData[v], TRUE)) = isActive(T)
    /\ isActive(gradient(T, gradientData[v])) = isActive(T)
    /\ isActive(setAdjointsSize(T, gradientData[v])) = isActive(T)
    /\ isActive(allocateAdjoints(T)) = isActive(T)

\* C23: the tape is passive when constructed, and isActive() changes in a
\* step only when the step is setActive() or setPassive(): the stores,
\* pushJacobi, registerInput, pushExternalFunction, evaluate, reset and the
\* gradient accessors leave it as it is.
C23_FlagFrame ==
  /\ ~isActive(tape)
  /\ [][/\ isActive(tape') # isActive(tape) =>
             tape' \in {setActive(tape), setPassive(tape)}
        /\ C23_Calls(tape)]_vars

\* a reset of an active tape that has deleted the data of a function and
\* has left the tape active
C23_Witness ==
  /\ last.op = "reset" /\ ~last.oob
  /\ isActive(tape)
  /\ last.start > last.end
  /\ \E f \in 1..MaxPushes : deleted[f] = 1

(***************************************************************************)
(* Properties of registerInput and registerOutput.                         *)
(***************************************************************************)
\* what C24 says of a step that is registerInput(v)
C24_Step(v) ==
  /\ IF gradientData[v] = 0
       THEN gradientData'[v] # 0 /\ FreshFor(v)
       ELSE gradientData'[v] = gradientData[v]
  /\ TapeItems(tape') = TapeItems(tape)
  /\ getPosition(tape') = getPosition(tape)
  /\ primalValue' = primalValue
  /\ LET r == registerOutput(tape', gradientData'[v], primalValue'[v])
     IN  r.tape = tape' /\ r.index = gradientData'[v] /\ r.value = primalValue'[v]

\* C24: registerInput(v), on the active as on the passive tape, gives a
\* variable of identity 0 a nonzero identity that no other live variable
\* holds, leaves a nonzero identity as it is and appends nothing to the
\* three chunk vectors; registerOutput(v) changes nothing.
C24_RegisterInput ==
  [][last'.op = "registerInput" => C24_Step(last'.v)]_vars

(***************************************************************************)
(* Properties of the configuration switches.                               *)
(***************************************************************************)
\* C25: after the same recording calls and the same seeds, evaluate() leaves
\* every input with the same adjoint on the default build as on a build
\* with the zero jacobi filter of pushJacobi, the zero adjoint skip of the
\* reverse walk or both switched off.
C25_SamePolicies ==
  FullReplay =>
    \A u \in Vars :
      (live[u] /\ isInput[u]) =>
        getGradient(tape, gradientData[u]) = getGradient(ref, refData[u])

(***************************************************************************)
(* Properties of the operators of ActiveReal.                              *)
(***************************************************************************)
\* what C26 says of a step that is w = x++
C26_Step(x, w) ==
  /\ primalValue'[w] = primalValue[x]
  /\ primalValue'[x] = primalValue[x] + 1
  /\ primalValue'[x] = addPassive(tape, primalValue[x], gradientData[x], 1).value
  /\ gradientData'[x] = gradientData[x]
  /\ deriv'[x] = deriv[x]

\* C26: w = x++ leaves w with the value x had and x with that value plus
\* one, as x += 1.0 does, and leaves the identity and the derivative of x.
C26_PostIncrement ==
  [][last'.op = "postIncrement" => C26_Step(last'.v, last'.src)]_vars

\* what C27 says of the step that constructs v from value and the gradient g
C27_Step(v, value, g) ==
  /\ primalValue'[v] = value
  /\ getGradient(tape', gradientData'[v]) = g

\* C27: immediately after ActiveReal v(value, gradient), v.getValue() is
\* value and v.getGradient() is gradient.
C27_ValueAndGradient ==
  [][\A v \in Vars, value \in 0..MaxValue, g \in {0} \cup Seeds :
       ConstructGradient(v, value, g) => C27_Step(v, value, g)]_vars

\* what C28 says of the step v += c (sign 1) or v -= c (sign -1)
C28_Step(v, c, sign) ==
  /\ tape' = tape
  /\ getPosition(tape') = getPosition(tape)
  /\ gradientData' = gradientData
  /\ primalValue' = [primalValue EXCEPT ![v] = @ + sign * c]
  /\ deriv' = deriv

\* after a replay of the whole recording every variable has the adjoint it
\* has in the run that records v = v + c for each v += c
C28_SameDerivatives ==
  FullReplay =>
    \A u \in Vars :
      live[u] => getGradient(tape, gradientData[u]) = getGradient(ref, refData[u])

\* C28: a += c and a -= c with a passive constant c change only the primal
\* value of a: its identity, the tape buffers, getPosition() and the index
\* allocator stay as they are, whether the tape is active or passive, and the
\* derivatives computed later are those of a run that records a = a + c.
C28_PassiveUpdate ==
  /\ []C28_SameDerivatives
  /\ [][/\ last'.op = "addPassive" => C28_Step(last'.v, last'.value, 1)
        /\ last'.op = "subPassive" => C28_Step(last'.v, last'.value, -1)]_vars

C28_Witness ==
  /\ FullReplay
  /\ CVgetDataSize(ref.statements) > CVgetDataSize(tape.statements)
  /\ \E u \in Vars :
       /\ isInput[u]
       /\ getGradient(tape, gradientData[u]) > 1
       /\ getGradient(ref, refData[u]) > 1

\* the call has ended the program and has left the tape as it was
C29_Rejected ==
  /\ last'.op = "crash"
  /\ tape' = tape

\* C29: evaluate(start, end) with start before end and reset(target) with
\* the target behind the current position are rejected by an assertion or an
\* abort and change neither the adjoints nor the buffers nor the index
\* allocator.
C29_FailFast ==
  [][\A i \in 1..Len(posHist), j \in 1..Len(posHist), survive \in BOOLEAN :
       (EvaluateReversed(i, j) \/ ResetAhead(j, survive)) => C29_Rejected]_vars

\* adjoint slot 0 reads 0
C30_SlotZero == getGradient(tape, 0) = 0

\* what C30 says of the calls on a variable v with identity 0
C30_Step(v, g) ==
  /\ SetGradient(v, g) => tape' = tape
  /\ \A checked \in BOOLEAN :
       WriteGradient(v, g, checked) => last'.op = "crash" /\ tape' = tape

C31_WalkInBounds ==
  last.op \notin {"teardown", "crash"} => ReplayInBounds(tape)

\* C31: evaluate grows the adjoint vector before the walk so that it covers
\* the identities up to the highest one issued, and every adjoint slot the
\* walk reads or writes (the lhs identity of a statement, the identity of a
\* jacobi entry) lies below the adjoint size, on every tape reached by
\* recording and by reset(P) followed by further recording.
C31_ReplayInBounds ==
  /\ []C31_WalkInBounds
  /\ [][last'.op = "evaluate" =>
         getMaximumGlobalIndex(tape'.indexHandler) < tape'.adjointsSize]_vars

\* C32: reset(target) and clearAdjoints() write existing adjoint slots only:
\* whenever reset is called, on a new tape and on a tape with statements and
\* an adjoint vector that was never allocated too, every slot the loop of
\* clearAdjoints() writes lies below the adjoint size.
C32_ClearInBounds ==
  [][last'.op \in {"reset", "crash"} => ~last'.oob /\ clearAdjointsInBounds(tape)]_vars

\* the identities the statements and the jacobi entries of the tape T refer to
IdentitiesOn(T) ==
  {CVitems(T.statements)[i].lhs : i \in 1..Len(CVitems(T.statements))}
    \cup {CVitems(T.data)[i].idx : i \in 1..Len(CVitems(T.data))}

\* the identities the step issues are not on the tape it starts from
C33_Step ==
  \A v \in Vars :
    (gradientData'[v] # gradientData[v] /\ gradientData'[v] # 0)
      => gradientData'[v] \notin IdentitiesOn(tape)

\* C33: after reset(P) to a position P that is not the initial one, an
\* identity issued by the next recording call is none of the identities the
\* statements and jacobi entries retained before P refer to.
C33_FreshIdentities ==
  [][(last.op = "reset" /\ last.end > 1) => C33_Step]_vars

\* C34: while the tape is passive no call changes the statement buffer or
\* the jacobi buffer, the manual store with its pushJacobi calls and a
\* pushJacobi on its own included; recording goes on after setActive() only.
C34_PassiveBuffers ==
  [][(~isActive(tape) /\ ~isActive(tape'))
       => (Statements' = Statements /\ Jacobies' = Jacobies)]_vars

\* C35: every identity stored on the tape is nonzero: the lhs identity of
\* each statement and the identity of each jacobi entry differ from 0, so
\* the replay never reads or accumulates into adjoint slot 0.
C35_NonzeroIdentities == 0 \notin IdentitiesOn(tape)

C35_Witness ==
  /\ Len(Statements) = limits.stmts
  /\ Len(Jacobies) = MaxTerms
  /\ \E v \in Vars : live[v] /\ gradientData[v] = 0

\* what C36 says of a step that is an evaluate(start, end)
C36_Step ==
  /\ tape' = [tape EXCEPT !.adjoints = tape'.adjoints,
                          !.adjointsSize = tape'.adjointsSize]
  /\ Statements' = Statements /\ Jacobies' = Jacobies
  /\ CVitems(tape'.externalFunctions) = CVitems(tape.externalFunctions)
  /\ getPosition(tape') = getPosition(tape)
  /\ tape'.indexHandler = tape.indexHandler
  /\ isActive(tape') = isActive(tape)
  /\ gradientData' = gradientData /\ primalValue' = primalValue

\* C36: evaluate(start, end) changes the adjoint vector only: the statements,
\* the jacobi entries, the external functions, getPosition(), the index
\* handler, the active flag and the identity of every variable are after
\* the call what they were before it.
C36_EvaluateFrame == [][last'.op = "evaluate" => C36_Step]_vars

\* a replay of statements and an external function on an active tape that
\* has changed the adjoints
C36_Witness ==
  /\ last.op = "evaluate" /\ tape.adjoints # last.pre
  /\ isActive(tape)
  /\ \E k \in 1..Len(last.log) : last.log[k].k = "ext"
  /\ \E k \in 1..Len(last.log) : last.log[k].k = "stmt"

(***************************************************************************)
(* Properties of the ChunkTape.                                            *)
(***************************************************************************)
\* the operator records of the ChunkTape in recording order
Operators == CVitems(tape.operators)

\* the leaves of a right hand side that pushJacobi appends
ActiveTerms(leaves) ==
  Cardinality({i \in 1..Len(leaves) : leaves[i].idx # 0 /\ leaves[i].jac # 0})

\* the step appends one record of n terms and gives v the next identity,
\* which is the place of the record on the tape
C37_Issued(v, n) ==
  /\ Operators' = Append(Operators, [n |-> n])
  /\ tape'.expressionCount = tape.expressionCount + 1
  /\ gradientData'[v] = tape'.expressionCount
  /\ gradientData'[v] = Len(Operators')
  /\ \A w \in Vars \ {v} : gradientData'[w] = gradientData[w]

\* what C37 says of a step that stores a right hand side with leaves to v
C37_StoreStep(v, leaves) ==
  IF isActive(tape) /\ ActiveTerms(leaves) >= 1
    THEN C37_Issued(v, ActiveTerms(leaves))
    ELSE /\ Operators' = Operators
         /\ tape'.expressionCount = tape.expressionCount
         /\ isActive(tape) => gradientData'[v] = 0

C37_Count == Len(Operators) = tape.expressionCount

\* C37: on the ChunkTape the number of operator records equals the
\* expression counter in every state, and the k-th record is the one of
\* the variable given identity k: registerInput appends a record of 0 terms
\* and issues the next identity, a store on the active tape with at least
\* one active term appends one record and issues the next identity, and a
\* store with no active term appends nothing and sets the identity to 0.
C37_RecordsMatchCounter ==
  /\ []C37_Count
  /\ [][/\ \A v \in Vars : ChunkTapeRegisterInput(v) => C37_Issued(v, 0)
        /\ \A v \in Vars, terms \in Terms, rhsValue \in limits.values :
             ChunkTapeAssignExpr(v, terms, rhsValue)
               => C37_StoreStep(v, Leaves(terms))
        /\ \A v \in Vars, src \in Vars :
             ChunkTapeAssignCopy(v, src)
               => C37_StoreStep(v, << [jac |-> 1, idx |-> gradientData[src]] >>)
        /\ \A v \in Vars, rhs \in limits.values :
             ChunkTapeAssignPassive(v, rhs) => C37_StoreStep(v, <<>>)]_vars

\* after a reset a registered input and a statement of two terms are on
\* the tape
C37_Witness ==
  /\ resets > 0 /\ last.op = "store"
  /\ Operators = << [n |-> 0], [n |-> 2] >>
  /\ gradientData[last.v] = 2

\* C38: a store on the passive ChunkTape (of an expression, a variable or a
\* constant) leaves the output with identity 0, also when it was nonzero
\* before, gives it the value of the right hand side and writes no buffer.
C38_PassiveStoreDemotes ==
  [][(last'.op = "store" /\ ~isActive(tape))
       => /\ gradientData'[last'.v] = 0
          /\ primalValue'[last'.v] = last'.value
          /\ Operators' = Operators /\ Jacobies' = Jacobies]_vars

====
